---- MODULE Spec2Model ----
(***************************************************************************)
(* A model of the OpenFOAM case reader (IO/Geometry/vtkOpenFOAMReader.cxx): *)
(* the boundary collection, the label-list-list reader, the owner/neighbour *)
(* cell-face builder, the tokenizer and the cell insertion passes.          *)
(* Each part has its own specification over the shared variables; the       *)
(* variables of the parts a specification does not exercise stay at their   *)
(* initial value.                                                           *)
(***************************************************************************)
EXTENDS Integers, Sequences, FiniteSets, TLC

VARIABLES
  \* vtkFoamBoundaries and the locals of vtkFoamBoundaries::update
  patches,          \* the std::vector<vtkFoamPatch> base of vtkFoamBoundaries
  bndError,         \* vtkFoamBoundaries::error_ is set
  updState,         \* position in update: "idle", "loop", "ok" (returned true), "failed"
  nBoundaries,      \* update: nBoundaries
  patchi,           \* update: loop index
  endFace,          \* update: endFace
  nBoundaryFaces,   \* update: nBoundaryFaces
  whichResult,      \* the last call of whichPatch: [called, faceIndex, index]
  \* vtkOpenFOAMReaderPrivate: the mesh primitives
  NumFaces,         \* vtkOpenFOAMReaderPrivate::NumFaces
  NumInternalFaces, \* vtkOpenFOAMReaderPrivate::NumInternalFaces
  NumCells,         \* vtkOpenFOAMReaderPrivate::NumCells
  FaceOwner,        \* vtkOpenFOAMReaderPrivate::FaceOwner (labels, 0-based face order)
  FaceNeigh,        \* vtkOpenFOAMReaderPrivate::FaceNeigh
  meshCells,        \* what ReadOwnerNeighbourFiles returned: the cell-face list
  tmpAddr,          \* CreateCellFaces: the write cursors when it returned
  ownState,         \* RequestData: "idle", "cleared", "faces" (faces read), "ok"
                    \* (meshCells built), "meshed", "failed", "aborted"
  \* vtkFoamEntryValue: ReadLabelListList / ReadCompactLabelListList
  lllInput,         \* what the file holds after its header
  lllResult,        \* *LabelListListPtr: [Offsets, Data]
  lllState,         \* "idle", "ok" (the reader returned), "error" (it threw)
  \* vtkFoamFile: the byte stream and the tokenizer
  stream,           \* the open file: [data, ptr, rest, stack]
  tokBefore,        \* the characters that were still to come when Read was called
  tokResult,        \* what the last Read did: "none", "true", "false", "throw"
  tokToken,         \* the token of the last Read: [type, text]
  tokError,         \* the message of the error the last Read threw, "" if none
  \* vtkOpenFOAMReaderPrivate: InsertCellsToGrid and its callers
  insMesh,          \* the mesh read: [meshFaces, FaceOwner, NumCells, meshCells, NumPoints, flat]
  DecomposePolyhedra, \* vtkOpenFOAMReader::DecomposePolyhedra
  cellList,         \* InsertCellsToGrid: cellList, [nullptr, tuples]
  internalMesh,     \* InsertCellsToGrid: the cells of internalMesh, in order
  arrayId,          \* InsertCellsToGrid: the "CellId" array of a zone mesh
  additionalCells,  \* MakeInternalMesh: additionalCells, tuples of five
  pointArray,       \* the number of tuples of pointArray
  nAdditionalPoints, \* InsertCellsToGrid: nAdditionalPoints
  AdditionalCellIds, \* vtkOpenFOAMReaderPrivate::AdditionalCellIds
  NumAdditionalCells, \* vtkOpenFOAMReaderPrivate::NumAdditionalCells
  AdditionalCellPoints, \* vtkOpenFOAMReaderPrivate::AdditionalCellPoints
  NumTotalAdditionalCells, \* vtkOpenFOAMReaderPrivate::NumTotalAdditionalCells
  cellI,            \* InsertCellsToGrid: loop index
  insState,         \* "idle", "cells" (in the loop), "returned" (left it early),
                    \* "undefined", "made", "failed" (CheckFaceList)
  \* vtkOpenFOAMReaderPrivate: InsertFacesToGrid and its callers
  faceArgs,         \* the arguments of the last call of InsertFacesToGrid
  boundaryMesh,     \* InsertFacesToGrid: the cells of boundaryMesh, in order
  faceState,        \* "idle", "inserted", "undefined"
  \* vtkOpenFOAMReaderPrivate::GetVolFieldAtTimeStep, the internal field
  cellData,         \* internalMesh->GetCellData(): the array of the field read last
  \* vtkOpenFOAMReader and its vtkOpenFOAMReaderPrivate: what RequestData rebuilds
  rd,               \* the options, their ...Old copies, TimeStep and the cached meshes
  rdLast,           \* what the last call of RequestData did
  rdCalls,          \* the number of calls of RequestData
  rdSets,           \* the number of calls of the setters
  \* vtkFoamDict: Read and Lookup
  dictInput,        \* the characters of the file that was read
  dictResult,       \* what vtkFoamDict::Read did and the dictionary it left
  dictLookup,       \* the arguments and the result of the last Lookup
  dictState,        \* "idle", "read", "looked"
  bufStream,       \* the vtkFoamFile whose characters are read one by one
  bufChar,         \* what the last Getc returned
  bufGot,          \* the vtkFoamFile as the last Getc left it
  bufHow,          \* where the last Getc took its character from
  bufState,        \* "closed", "open", "got", "eof", "putback", "failed"
  \* Numbers: Read, ReadIntValue and ReadFloatValue of a literal
  numInput,         \* the literal written in the file and what follows it
  numResult,        \* what reading it gave and what is left of the file
  numState,         \* "closed", "open", "read"
  \* vtkOpenFOAMReaderPrivate::GetVolFieldAtTimeStep: the boundary fields
  fldFile,          \* the boundaryField dictionary as the file holds it
  fldDict,          \* the boundaryField dictionary in memory (its arrays change in place)
  fldPatches,       \* BoundaryDict: the patches, [name_, size_]
  fldType,          \* fieldDataType of the field file
  fldPatchi,        \* the patch loop: patches done
  fldData,          \* per patch done: vData, the array added to the patch mesh
  fldState,         \* "idle", "loop", "done", "failed" (returned early)
  \* the zone part of vtkOpenFOAMReaderPrivate::RequestData
  zn,               \* the meshes of the reader, the output and the position of the call
  znFile,           \* the pointZones, faceZones or cellZones file the call read last
  \* vtkSMPToolsImplForOpenMP
  smpArgs,          \* first, last, grain and the number of threads of the call
  smpFrom,          \* the loop variable from
  smpPending,       \* the iterations of the loop no thread has taken yet
  smpThreads,       \* the chunk each thread is executing
  smpCount,         \* how often the functor has processed each index
  smpState,         \* the position of the call
  \* TestThreadedCallbackQueue: RunThreads and the vtkThreadedCallbackQueue it drives
  queue,            \* InvokerQueue, Running, NumberOfThreads and the worker threads of the queue
  test,             \* the position of RunThreads, its i, nthreadsEnd and count
  ran               \* how often the job pushed with each i has been run

bndVars ==
  <<patches, bndError, updState, nBoundaries, patchi, endFace, nBoundaryFaces, whichResult>>

meshVars ==
  <<NumFaces, NumInternalFaces, NumCells, FaceOwner, FaceNeigh, meshCells, tmpAddr, ownState>>

lllVars == <<lllInput, lllResult, lllState>>

tokVars == <<stream, tokBefore, tokResult, tokToken, tokError>>

insVars ==
  <<insMesh, DecomposePolyhedra, cellList, internalMesh, arrayId, additionalCells, pointArray,
    nAdditionalPoints, AdditionalCellIds, NumAdditionalCells, AdditionalCellPoints,
    NumTotalAdditionalCells, cellI, insState>>

faceVars == <<faceArgs, boundaryMesh, faceState>>

rdVars == <<rd, rdLast, rdCalls, rdSets>>

dictVars == <<dictInput, dictResult, dictLookup, dictState>>

bufVars == <<bufStream, bufChar, bufGot, bufHow, bufState>>

numVars == <<numInput, numResult, numState>>

fldVars == <<fldFile, fldDict, fldPatches, fldType, fldPatchi, fldData, fldState>>

volVars == <<cellData>>

znVars == <<zn, znFile>>

smpVars == <<smpArgs, smpFrom, smpPending, smpThreads, smpCount, smpState>>

qVars == <<queue, test, ran>>

vars == <<bndVars, meshVars, lllVars, tokVars, insVars, faceVars, volVars, rdVars, dictVars, bufVars, numVars, fldVars, znVars, smpVars, qVars>>

\* What the operations of one part leave alone
notBnd == <<meshVars, lllVars, tokVars, insVars, faceVars, volVars, rdVars, dictVars, bufVars, numVars, fldVars, znVars, smpVars, qVars>>
notMesh == <<bndVars, lllVars, tokVars, insVars, faceVars, volVars, rdVars, dictVars, bufVars, numVars, fldVars, znVars, smpVars, qVars>>
notLll == <<bndVars, meshVars, tokVars, insVars, faceVars, volVars, rdVars, dictVars, bufVars, numVars, fldVars, znVars, smpVars, qVars>>
notTok == <<bndVars, meshVars, lllVars, insVars, faceVars, volVars, rdVars, dictVars, bufVars, numVars, fldVars, znVars, smpVars, qVars>>
notIns == <<bndVars, meshVars, lllVars, tokVars, rdVars, dictVars, bufVars, numVars, fldVars, znVars, smpVars, qVars>>
notRd == <<bndVars, meshVars, lllVars, tokVars, insVars, faceVars, volVars, dictVars, bufVars, numVars, fldVars, znVars, smpVars, qVars>>
notDict == <<bndVars, meshVars, lllVars, tokVars, insVars, faceVars, volVars, rdVars, bufVars, numVars, fldVars, znVars, smpVars, qVars>>
notBuf == <<bndVars, meshVars, lllVars, tokVars, insVars, faceVars, volVars, rdVars, dictVars, numVars, fldVars, znVars, smpVars, qVars>>
notNum == <<bndVars, meshVars, lllVars, tokVars, insVars, faceVars, volVars, rdVars, dictVars, bufVars, fldVars, znVars, smpVars, qVars>>
notFld == <<bndVars, meshVars, lllVars, tokVars, insVars, faceVars, volVars, rdVars, dictVars, bufVars, numVars, znVars, smpVars, qVars>>
notZn == <<bndVars, meshVars, lllVars, tokVars, insVars, faceVars, volVars, rdVars, dictVars, bufVars, numVars, fldVars, smpVars, qVars>>
notSmp == <<bndVars, meshVars, lllVars, tokVars, insVars, faceVars, volVars, rdVars, dictVars, bufVars, numVars, fldVars, znVars, qVars>>
notQ == <<bndVars, meshVars, lllVars, tokVars, insVars, faceVars, volVars, rdVars, dictVars, bufVars, numVars, fldVars, znVars, smpVars>>

----------------------------------------------------------------------------
(* Helpers *)

Range(s) == {s[i] : i \in 1..Len(s)}

SeqsUpTo(S, n) == UNION {[1..k -> S] : k \in 0..n}

\* The element of a set of one element
TheOne(S) == CHOOSE x \in S : TRUE

----------------------------------------------------------------------------
(* vtkFoamPatch, vtkFoamBoundaries *)

\* Largest face label / patch size written in a boundary file of the model
MaxFace == 3
\* Largest number of patch entries of a boundary dictionary
MaxPatches == 3

\* vtkFoamPatch as default-constructed (also what resize() fills in)
DefaultPatch ==
  [index_ |-> 0, start_ |-> 0, size_ |-> 0, offset_ |-> 0, type_ |-> "GEOMETRICAL"]

\* vtkFoamPatch::endFace
PatchEndFace(p) == p.start_ + p.size_

\* The entries a "polyMesh/boundary" dictionary may hold for one patch: the
\* keywords present in the patch dictionary and their values
PatchKeys == {"type", "startFace", "nFaces"}
PatchTypeNames == {"patch", "processor", "empty"}
PatchEntries ==
  [keys : {PatchKeys} \cup {PatchKeys \ {k} : k \in PatchKeys},
   type : PatchTypeNames,
   startFace : -1..MaxFace,
   nFaces : -1..MaxFace]

\* update: the "size, consistency sanity checks" on negative values
NegativeRange(start, size) == start < 0 \/ size < 0

\* update: endFace >= 0 && endFace != patch.start_
InconsistentStartMutant(end, start) == end > 0 /\ end # start
InconsistentStart(end, start) == end >= 0 /\ end # start

\* update: classification of the patch type name
PatchTypeOf(name) ==
  IF name \in {"patch", "wall", "mappedWall"} THEN "PHYSICAL"
  ELSE IF name \in {"processor", "processorCyclic"} THEN "PROCESSOR"
  ELSE "GEOMETRICAL"

\* whichPatch: the binary search, first and count as in the loop; positions
\* count from 1 and last is Len(p) + 1
RECURSIVE WhichSearch(_, _, _, _)
WhichStep(p, faceIndex, first, count, step) ==
  IF p[first + step].start_ <= faceIndex
  THEN WhichSearch(p, faceIndex, first + step + 1, count - (step + 1))
  ELSE WhichSearch(p, faceIndex, first, step)

WhichSearch(p, faceIndex, first, count) ==
  IF count > 0 THEN WhichStep(p, faceIndex, first, count, count \div 2) ELSE first

WhichFound(p, first) == IF first # Len(p) + 1 THEN p[first].index_ ELSE -1

\* vtkFoamBoundaries::whichPatch
whichPatch(p, faceIndex) ==
  IF p = <<>> \/ faceIndex < p[1].start_ \/ faceIndex >= PatchEndFace(p[Len(p)]) THEN -1
  ELSE WhichFound(p, WhichSearch(p, faceIndex, 1, Len(p)))

\* No call of whichPatch yet
NoWhich == [called |-> FALSE, faceIndex |-> 0, index |-> 0]

\* The face labels whichPatch is asked for: from an internal face to past the
\* last face a boundary of the model can hold (the last patch starts at
\* MaxFace at most and has MaxFace faces at most)
FaceIndices == -1 .. (2 * MaxFace + 1)

BndInit ==
  /\ whichResult = NoWhich
  /\ patches = <<>>
  /\ bndError = FALSE
  /\ updState = "idle"
  /\ nBoundaries = 0
  /\ patchi = 0
  /\ endFace = -1
  /\ nBoundaryFaces = 0

\* update(dict), up to the loop: clearAll(), resize(dict.size())
UpdateBegin ==
  /\ UNCHANGED notBnd
  /\ updState # "loop"
  /\ \E n \in 0..MaxPatches :
       /\ patches' = [i \in 1..n |-> DefaultPatch]
       /\ nBoundaries' = n
  /\ bndError' = FALSE
  /\ patchi' = 0
  /\ endFace' = -1
  /\ nBoundaryFaces' = 0
  /\ updState' = "loop"
  /\ whichResult' = NoWhich

\* update: one iteration of the loop over the patch entries, on entry e
UpdatePatchStep(e) ==
  LET p0 == [DefaultPatch EXCEPT !.index_ = patchi, !.offset_ = nBoundaryFaces]
      p1 == [p0 EXCEPT !.start_ = e.startFace]
      p2 == [p1 EXCEPT !.size_ = e.nFaces]
      p3 == [p2 EXCEPT !.type_ = PatchTypeOf(e.type)]
      fail(p) == /\ patches' = [patches EXCEPT ![patchi + 1] = p]
                 /\ bndError' = TRUE
                 /\ updState' = "failed"
                 /\ UNCHANGED <<nBoundaries, patchi, endFace, nBoundaryFaces, whichResult>>
  IN IF "type" \notin e.keys THEN fail(p0)
     ELSE IF "startFace" \notin e.keys THEN fail(p0)
     ELSE IF "nFaces" \notin e.keys THEN fail(p1)
     ELSE IF NegativeRange(p2.start_, p2.size_) THEN fail(p2)
     ELSE IF InconsistentStart(endFace, p2.start_) THEN fail(p2)
     ELSE /\ patches' = [patches EXCEPT ![patchi + 1] = p3]
          /\ endFace' = PatchEndFace(p2)
          /\ nBoundaryFaces' =
               IF p3.type_ \in {"PHYSICAL", "PROCESSOR"}
               THEN nBoundaryFaces + p2.size_ ELSE nBoundaryFaces
          /\ patchi' = patchi + 1
          /\ UNCHANGED <<bndError, updState, nBoundaries, whichResult>>

UpdatePatch ==
  /\ UNCHANGED notBnd
  /\ updState = "loop"
  /\ patchi < nBoundaries
  /\ \E e \in PatchEntries : UpdatePatchStep(e)

\* update: the loop is over, return true
UpdateEnd ==
  /\ UNCHANGED notBnd
  /\ updState = "loop"
  /\ patchi >= nBoundaries
  /\ updState' = "ok"
  /\ UNCHANGED <<patches, bndError, nBoundaries, patchi, endFace, nBoundaryFaces, whichResult>>

\* whichPatch(faceIndex), on the boundaries an update has read; whichPatch is
\* const, so one call after each update shows all it can do
WhichPatch ==
  /\ UNCHANGED notBnd
  /\ updState = "ok"
  /\ ~whichResult.called
  /\ \E faceIndex \in FaceIndices :
       whichResult' = [called |-> TRUE, faceIndex |-> faceIndex,
                       index |-> whichPatch(patches, faceIndex)]
  /\ UNCHANGED <<patches, bndError, updState, nBoundaries, patchi, endFace, nBoundaryFaces>>

BndNext == UpdateBegin \/ UpdatePatch \/ UpdateEnd \/ WhichPatch

----------------------------------------------------------------------------
(* ReadFacesFile, ReadOwnerNeighbourFiles, CreateCellFaces *)

\* Largest number of faces of an owner or neighbour file of the model
MaxFaces == 3
\* The labels an owner or neighbour file may hold.  Nothing in the list
\* reader rejects a negative label; -1 is what legacy neighbour files hold
\* for boundary faces.
FaceLabels == {-2, -1, 0, 1}
\* Largest number of entries of a neighbour file of the model
MaxInternalFaces == 2
OwnerLists == SeqsUpTo(FaceLabels, MaxFaces)
NeighbourLists == SeqsUpTo(FaceLabels, MaxInternalFaces)

\* GetLabelValue(array, idx, use64BitLabels): arrays are 0-based
GetLabelValue(array, idx) == array[idx + 1]

\* GetLabelValue: assert(result >= -1), for every label CreateCellFaces reads.
\* The assertion is compiled in only without NDEBUG.
LabelAssertsHold(faceOwner, faceNeigh) ==
  \A e \in Range(faceOwner) \cup Range(faceNeigh) : e >= -1

\* vtkFoamLabelListListImpl: Offsets and Data, both 0-based arrays
GetNumberOfElements(lll) == Len(lll.Offsets) - 1
GetBeginOffset(lll, i) == lll.Offsets[i + 1]
GetEndOffset(lll, i) == lll.Offsets[i + 2]
GetSize(lll, i) == lll.Offsets[i + 2] - lll.Offsets[i + 1]
SetOffset(lll, i, val) == [lll EXCEPT !.Offsets[i + 1] = val]
IncrementOffset(lll, i) == [lll EXCEPT !.Offsets[i + 1] = @ + 1]
SetValue(lll, bodyIndex, val) == [lll EXCEPT !.Data[bodyIndex + 1] = val]
\* GetCell(i, cell): the sub-list i, as a sequence
GetCell(lll, i) ==
  [k \in 1..(lll.Offsets[i + 2] - lll.Offsets[i + 1]) |-> lll.Data[lll.Offsets[i + 1] + k]]

\* A slot of a data array that SetNumberOfValues allocated and nothing wrote
Unwritten == -1

\* ResizeExact(numElem, numValues) followed by ResetOffsets()
ResizeExactZero(numElem, numValues) ==
  [Offsets |-> [i \in 1..(numElem + 1) |-> 0], Data |-> [i \in 1..numValues |-> Unwritten]]

\* CreateCellFaces, first pass, one label: count it and track the maximum
CountLabelMutant(acc, lab) ==
  IF lab >= 0
  THEN [nCells |-> lab, nTotalCellFaces |-> acc.nTotalCellFaces + 1]
  ELSE acc
CountLabel(acc, lab) ==
  IF lab >= 0
  THEN [nCells |-> IF acc.nCells < lab THEN lab ELSE acc.nCells,
        nTotalCellFaces |-> acc.nTotalCellFaces + 1]
  ELSE acc

\* CreateCellFaces, first pass: the loop over [0, nInternalFaces) (owner and
\* neighbour) followed by the loop over [nInternalFaces, nFaces) (owner only)
CountFace(faceOwner, faceNeigh, facei, acc) ==
  IF facei < Len(faceNeigh)
  THEN CountLabel(CountLabel(acc, GetLabelValue(faceOwner, facei)),
                  GetLabelValue(faceNeigh, facei))
  ELSE CountLabel(acc, GetLabelValue(faceOwner, facei))

RECURSIVE CountCells(_, _, _, _)
CountCells(faceOwner, faceNeigh, facei, acc) ==
  IF facei >= Len(faceOwner) THEN acc
  ELSE TheOne({CountCells(faceOwner, faceNeigh, facei + 1, a2) :
                 a2 \in {CountFace(faceOwner, faceNeigh, facei, acc)}})

\* CreateCellFaces, "count number of faces for each cell": accumulate into
\* the slot above (cellIndexOffset = 1)
CountFaceOf(cells, lab) == IF lab >= 0 THEN IncrementOffset(cells, 1 + lab) ELSE cells

CountFacesOf(faceOwner, faceNeigh, facei, cells) ==
  IF facei < Len(faceNeigh)
  THEN CountFaceOf(CountFaceOf(cells, GetLabelValue(faceOwner, facei)),
                   GetLabelValue(faceNeigh, facei))
  ELSE CountFaceOf(cells, GetLabelValue(faceOwner, facei))

RECURSIVE CountFaces(_, _, _, _)
CountFaces(faceOwner, faceNeigh, facei, cells) ==
  IF facei >= Len(faceOwner) THEN cells
  ELSE TheOne({CountFaces(faceOwner, faceNeigh, facei + 1, c2) :
                 c2 \in {CountFacesOf(faceOwner, faceNeigh, facei, cells)}})

\* CreateCellFaces, "reduce per-cell face count -> start offsets"
RECURSIVE ReduceOffsets(_, _, _, _)
ReduceOffsets(cells, celli, nCells, currOffset) ==
  IF celli > nCells THEN cells
  ELSE TheOne({ReduceOffsets(reduced, celli + 1, nCells, GetBeginOffset(reduced, celli)) :
                 reduced \in {SetOffset(cells, celli,
                                        currOffset + GetBeginOffset(cells, celli))}})

\* CreateCellFaces, the scatter of one face into the slot of one cell:
\* st = [cells, tmpAddr]
ScatterFaceMutant(st, lab, facei) ==
  IF lab >= 0
  THEN [cells |-> SetValue(st.cells, GetBeginOffset(st.tmpAddr, lab), facei),
        tmpAddr |-> st.tmpAddr]
  ELSE st
ScatterFace(st, lab, facei) ==
  IF lab >= 0
  THEN [cells |-> SetValue(st.cells, GetBeginOffset(st.tmpAddr, lab), facei),
        tmpAddr |-> IncrementOffset(st.tmpAddr, lab)]
  ELSE st

ScatterFacesOf(faceOwner, faceNeigh, facei, st) ==
  IF facei < Len(faceNeigh)
  THEN ScatterFace(ScatterFace(st, GetLabelValue(faceOwner, facei), facei),
                   GetLabelValue(faceNeigh, facei), facei)
  ELSE ScatterFace(st, GetLabelValue(faceOwner, facei), facei)

RECURSIVE ScatterFaces(_, _, _, _)
ScatterFaces(faceOwner, faceNeigh, facei, st) ==
  IF facei >= Len(faceOwner) THEN st
  ELSE TheOne({ScatterFaces(faceOwner, faceNeigh, facei + 1, s2) :
                 s2 \in {ScatterFacesOf(faceOwner, faceNeigh, facei, st)}})

\* CreateCellFaces(faceOwner, faceNeigh), called with
\* Len(faceNeigh) <= Len(faceOwner): the values it leaves in NumCells,
\* NumFaces, NumInternalFaces, the list it returns and its write cursors
CreateCellFaces(faceOwner, faceNeigh) ==
  LET counted == CountCells(faceOwner, faceNeigh, 0, [nCells |-> -1, nTotalCellFaces |-> 0])
      nCells == counted.nCells + 1
      sized == ResizeExactZero(nCells, counted.nTotalCellFaces)
      offs == ReduceOffsets(CountFaces(faceOwner, faceNeigh, 0, sized), 1, nCells, 0)
      done == ScatterFaces(faceOwner, faceNeigh, 0,
                [cells |-> offs, tmpAddr |-> [Offsets |-> offs.Offsets, Data |-> <<>>]])
  IN [NumCells |-> nCells,
      NumFaces |-> Len(faceOwner),
      NumInternalFaces |-> Len(faceNeigh),
      meshCells |-> done.cells,
      tmpAddr |-> done.tmpAddr.Offsets]

\* ReadOwnerNeighbourFiles: "basic checks" on the two list lengths
FewerOwnersMutant(nFaces, nInternalFaces) == nFaces + 1 < nInternalFaces
FewerOwners(nFaces, nInternalFaces) == nFaces < nInternalFaces

\* ReadOwnerNeighbourFiles: "set or check number of mesh faces"
FaceCountMismatch(numFaces, nFaces) == numFaces # 0 /\ numFaces # nFaces

NoList == [Offsets |-> <<>>, Data |-> <<>>]

MeshInit ==
  /\ NumFaces = 0
  /\ NumInternalFaces = 0
  /\ NumCells = 0
  /\ FaceOwner = <<>>
  /\ FaceNeigh = <<>>
  /\ meshCells = NoList
  /\ tmpAddr = <<>>
  /\ ownState = "idle"

\* RequestData with recreateInternalMesh: ClearInternalMeshes(), and the
\* local meshCells starts out null
ClearInternalMeshes ==
  /\ ownState \in {"idle", "meshed", "failed"}
  /\ FaceOwner' = <<>>
  /\ FaceNeigh' = <<>>
  /\ meshCells' = NoList
  /\ tmpAddr' = <<>>
  /\ ownState' = "cleared"
  /\ UNCHANGED <<NumFaces, NumInternalFaces, NumCells>>
  /\ UNCHANGED notMesh

\* ReadFacesFile: the faces file holds nf faces
ReadFacesFile ==
  /\ ownState = "cleared"
  /\ \E nf \in 0..MaxFaces : NumFaces' = nf
  /\ NumInternalFaces' = 0
  /\ ownState' = "faces"
  /\ UNCHANGED <<NumCells, FaceOwner, FaceNeigh, meshCells, tmpAddr>>
  /\ UNCHANGED notMesh

\* ReadFacesFile: the faces file cannot be opened or parsed; RequestData
\* returns 0
ReadFacesFails ==
  /\ ownState = "cleared"
  /\ NumFaces' = 0
  /\ NumInternalFaces' = 0
  /\ ownState' = "failed"
  /\ UNCHANGED <<NumCells, FaceOwner, FaceNeigh, meshCells, tmpAddr>>
  /\ UNCHANGED notMesh

\* ReadOwnerNeighbourFiles: the owner file cannot be opened or parsed
ReadOwnerFails ==
  /\ ownState = "faces"
  /\ NumCells' = 0
  /\ ownState' = "failed"
  /\ UNCHANGED <<NumFaces, NumInternalFaces, FaceOwner, FaceNeigh, meshCells, tmpAddr>>
  /\ UNCHANGED notMesh

\* ReadOwnerNeighbourFiles: the owner file holds `own`; the neighbour file
\* cannot be opened or parsed, or has another label size
ReadNeighbourFails ==
  /\ ownState = "faces"
  /\ \E own \in OwnerLists : FaceOwner' = own
  /\ NumCells' = 0
  /\ ownState' = "failed"
  /\ UNCHANGED <<NumFaces, NumInternalFaces, FaceNeigh, meshCells, tmpAddr>>
  /\ UNCHANGED notMesh

\* ReadOwnerNeighbourFiles: the owner file holds `own`, the neighbour file
\* `nei`.  A build with assertions aborts the process in CreateCellFaces when
\* a label is below -1; the other builds go on.
ReadOwnerNeighbour(own, nei) ==
  /\ FaceOwner' = own
  /\ FaceNeigh' = nei
  /\ IF FewerOwners(Len(own), Len(nei)) \/ FaceCountMismatch(NumFaces, Len(own))
     THEN /\ NumCells' = 0
          /\ ownState' = "failed"
          /\ UNCHANGED <<NumFaces, NumInternalFaces, meshCells, tmpAddr>>
     ELSE \E ndebug \in BOOLEAN :
            IF ~ndebug /\ ~LabelAssertsHold(own, nei)
            THEN /\ ownState' = "aborted"
                 /\ NumFaces' = Len(own)
                 /\ NumInternalFaces' = Len(nei)
                 /\ NumCells' = 0
                 /\ UNCHANGED <<meshCells, tmpAddr>>
            ELSE LET r == CreateCellFaces(own, nei)
                 IN /\ NumCells' = r.NumCells
                    /\ NumFaces' = r.NumFaces
                    /\ NumInternalFaces' = r.NumInternalFaces
                    /\ meshCells' = r.meshCells
                    /\ tmpAddr' = r.tmpAddr
                    /\ ownState' = "ok"
  /\ UNCHANGED notMesh

ReadOwnerNeighbourFiles ==
  /\ ownState = "faces"
  /\ \E own \in OwnerLists, nei \in NeighbourLists : ReadOwnerNeighbour(own, nei)

\* RequestData, after ReadOwnerNeighbourFiles returned the cell-face list:
\* "transitional code - do not yet use neighbour information"
DeleteFaceNeigh ==
  /\ ownState = "ok"
  /\ FaceNeigh' = <<>>
  /\ ownState' = "meshed"
  /\ UNCHANGED <<NumFaces, NumInternalFaces, NumCells, FaceOwner, meshCells, tmpAddr>>
  /\ UNCHANGED notMesh

MeshNext ==
  \/ ClearInternalMeshes
  \/ DeleteFaceNeigh
  \/ ReadFacesFile
  \/ ReadFacesFails
  \/ ReadOwnerFails
  \/ ReadNeighbourFails
  \/ ReadOwnerNeighbourFiles

----------------------------------------------------------------------------
(* vtkFoamEntryValue::ReadLabelListList, ReadCompactLabelListList *)

\* Largest number of sub-lists of a label-list-list file of the model
MaxSubLists == 2
\* Largest number of labels of one sub-list
MaxSubLen == 2
\* The labels a sub-list may hold
SubListLabels == {5, 6}
\* What a slot holds that was allocated and never written
GarbageValues == {-1, 5}

\* One sub-list as it was written: its labels, and whether it is written
\* with a size prefix, "2(5 6)", or only parenthesised, "(5 6)"
WrittenSubLists == [labels : SeqsUpTo(SubListLabels, MaxSubLen), prefixed : BOOLEAN]
WrittenLists == SeqsUpTo(WrittenSubLists, MaxSubLists)

\* The tokens vtkFoamFile::Read tells apart here; a binary block is what the
\* raw Read(buf, len) consumes between two parentheses
LabelToken(n) == [type |-> "LABEL", val |-> n]
PunctuationToken(c) == [type |-> "PUNCTUATION", val |-> c]
RawBlock(labels) == [type |-> "RAW", val |-> labels]
EndOfInput == [type |-> "EOF", val |-> 0]
IsPunctuation(tok, c) == tok.type = "PUNCTUATION" /\ tok.val = c

\* The file contents for one sub-list, and for the whole list
WriteSubList(sub, binary) ==
  LET k == Len(sub.labels)
      body == [i \in 1..k |-> LabelToken(sub.labels[i])]
  IN IF ~sub.prefixed
     THEN <<PunctuationToken("(")>> \o body \o <<PunctuationToken(")")>>
     ELSE IF ~binary
     THEN <<LabelToken(k), PunctuationToken("(")>> \o body \o <<PunctuationToken(")")>>
     ELSE IF k = 0 THEN <<LabelToken(0)>>
     ELSE <<LabelToken(k), PunctuationToken("("), RawBlock(sub.labels), PunctuationToken(")")>>

RECURSIVE WriteSubLists(_, _, _)
WriteSubLists(lists, binary, i) ==
  IF i > Len(lists) THEN <<>>
  ELSE WriteSubList(lists[i], binary) \o WriteSubLists(lists, binary, i + 1)

WriteLabelListList(lists, binary) ==
  <<LabelToken(Len(lists)), PunctuationToken("(")>>
    \o WriteSubLists(lists, binary, 1) \o <<PunctuationToken(")")>>

\* The tokens of lllInput: the file may end early
InputTokens(input) == SubSeq(WriteLabelListList(input.lists, input.binary), 1, input.cut)

\* io.Read(currToken) at position pos of the token stream
TokenAt(tokens, pos) == IF pos <= Len(tokens) THEN tokens[pos] ELSE EndOfInput


\* A vtkDataArray grown to hold n values: the new slots are not initialised
GrowTo(arr, n, g) ==
  IF Len(arr) >= n THEN arr ELSE arr \o [i \in 1..(n - Len(arr)) |-> g]

\* vtkFoamLabelListListImpl::ResizeExact(numElem, numValues): only the first
\* offset is set
ResizeExact(numElem, numValues, g) ==
  [Offsets |-> [i \in 1..(numElem + 1) |-> IF i = 1 THEN 0 ELSE g],
   Data |-> [i \in 1..numValues |-> g]]

\* WritePointer(cellId, dataOffset, subLength): sets the offset of cellId
\* and makes room for the sub-list
WritePointer(lll, cellId, dataOffset, subLength, g) ==
  [Offsets |-> [lll.Offsets EXCEPT ![cellId + 1] = dataOffset],
   Data |-> GrowTo(lll.Data, dataOffset + subLength, g)]

\* SetValue(cellId, subIndex, value)
SetCellValue(lll, cellId, subIndex, value) ==
  [lll EXCEPT !.Data[lll.Offsets[cellId + 1] + subIndex + 1] = value]

\* InsertValue(bodyIndex, value): grows the data array when needed
InsertValue(lll, bodyIndex, value, g) ==
  [lll EXCEPT !.Data = [GrowTo(lll.Data, bodyIndex + 1, g) EXCEPT ![bodyIndex + 1] = value]]

\* ResizeData(numValues): vtkDataArray::Resize truncates, and only reserves
\* memory when asked for more
ResizeData(lll, numValues) ==
  [lll EXCEPT !.Data = IF numValues < Len(@) THEN SubSeq(@, 1, numValues) ELSE @]

\* The parse position: ps = [pos, lll, nTotalElems, err]; err is a thrown
\* vtkFoamError
Throw(ps) == [ps EXCEPT !.err = TRUE]

\* io.ReadExpecting(c)
ReadExpecting(tokens, ps, c) ==
  IF ps.err THEN ps
  ELSE IF IsPunctuation(TokenAt(tokens, ps.pos), c) THEN [ps EXCEPT !.pos = @ + 1]
  ELSE Throw(ps)

\* ReadLabelListList, size-prefixed ascii sub-list: the loop over subIdx,
\* vtkFoamReadValue<vtkTypeInt64>::ReadValue and SetValue(idx, subIdx, value)
RECURSIVE ReadSizedValues(_, _, _, _, _)
ReadSizedValues(tokens, idx, subIdx, sublistLen, ps) ==
  IF ps.err \/ subIdx >= sublistLen THEN ps
  ELSE LET tok == TokenAt(tokens, ps.pos)
       IN IF tok.type # "LABEL" THEN Throw(ps)
          ELSE ReadSizedValues(tokens, idx, subIdx + 1, sublistLen,
                 [ps EXCEPT !.pos = @ + 1, !.lll = SetCellValue(@, idx, subIdx, tok.val)])

\* ReadLabelListList, size-prefixed binary sub-list: io.Read(sublist, nbytes)
ReadRawValues(tokens, idx, sublistLen, ps) ==
  IF ps.err THEN ps
  ELSE LET tok == TokenAt(tokens, ps.pos)
       IN IF tok.type # "RAW" \/ Len(tok.val) # sublistLen THEN Throw(ps)
          ELSE [ps EXCEPT !.pos = @ + 1,
                          !.lll = [@ EXCEPT !.Data =
                                     [k \in 1..Len(@) |->
                                        LET sub == k - ps.lll.Offsets[idx + 1]
                                        IN IF sub \in 1..sublistLen THEN tok.val[sub] ELSE @[k]]]]

\* ReadLabelListList, token-delimited sub-list: where the next label goes
\* after InsertValue(nTotalElems++, ...); ++nTotalElems;
AfterInsert(nTotalElems) == (nTotalElems + 1) + 1

\* ReadLabelListList, token-delimited sub-list:
\* while (io.Read(currToken) && currToken != ')')
RECURSIVE ReadDelimitedValues(_, _, _)
ReadDelimitedValues(tokens, g, ps) ==
  LET tok == TokenAt(tokens, ps.pos)
  IN IF tok.type = "EOF" THEN ps
     ELSE IF IsPunctuation(tok, ")") THEN [ps EXCEPT !.pos = @ + 1]
     ELSE IF tok.type # "LABEL" THEN Throw(ps)
     ELSE ReadDelimitedValues(tokens, g,
            [ps EXCEPT !.pos = @ + 1,
                       !.lll = InsertValue(@, ps.nTotalElems, tok.val, g),
                       !.nTotalElems = AfterInsert(@)])


\* ReadLabelListList: the body of the loop over idx, one sub-list
ReadSubList(tokens, binary, g, idx, ps) ==
  LET tok == TokenAt(tokens, ps.pos)
  IN IF tok.type = "EOF" THEN Throw(ps)
     ELSE IF tok.type = "LABEL"
     THEN LET sublistLen == tok.val
              p1 == [ps EXCEPT !.pos = @ + 1,
                               !.lll = WritePointer(@, idx, ps.nTotalElems, sublistLen, g)]
              p2 == IF ~binary
                    THEN ReadExpecting(tokens,
                           ReadSizedValues(tokens, idx, 0, sublistLen,
                             ReadExpecting(tokens, p1, "(")), ")")
                    ELSE IF sublistLen > 0
                    THEN ReadExpecting(tokens,
                           ReadRawValues(tokens, idx, sublistLen,
                             ReadExpecting(tokens, p1, "(")), ")")
                    ELSE p1
          IN IF sublistLen < 0 THEN Throw(ps)
             ELSE IF p2.err THEN p2
             ELSE [p2 EXCEPT !.nTotalElems = @ + sublistLen]
     ELSE IF IsPunctuation(tok, "(")
     THEN ReadDelimitedValues(tokens, g,
            [ps EXCEPT !.pos = @ + 1, !.lll = SetOffset(@, idx, ps.nTotalElems)])
     ELSE Throw(ps)

\* ReadLabelListList: for (idx = 0; idx < listLen; ++idx)
RECURSIVE ReadSubLists(_, _, _, _, _, _)
ReadSubLists(tokens, binary, g, idx, listLen, ps) ==
  IF ps.err \/ idx >= listLen THEN ps
  ELSE ReadSubLists(tokens, binary, g, idx + 1, listLen,
         ReadSubList(tokens, binary, g, idx, ps))

\* ReadLabelListList(io): the list it leaves in LabelListListPtr, and
\* whether it threw
ReadLabelListList(tokens, binary, g) ==
  LET tok == TokenAt(tokens, 1)
      listLen == tok.val
      p0 == [pos |-> 2, lll |-> ResizeExact(listLen, 4 * listLen, g),
             nTotalElems |-> 0, err |-> FALSE]
      p1 == ReadSubLists(tokens, binary, g, 0, listLen, ReadExpecting(tokens, p0, "("))
      p2 == [p1 EXCEPT !.lll = ResizeData(SetOffset(@, listLen, p1.nTotalElems),
                                          p1.nTotalElems)]
  IN IF tok.type # "LABEL" THEN [lll |-> NoList, err |-> TRUE]
     ELSE IF listLen < 0 THEN [lll |-> NoList, err |-> TRUE]
     ELSE IF p1.err THEN [lll |-> p1.lll, err |-> TRUE]
     ELSE [lll |-> p2.lll, err |-> ReadExpecting(tokens, p2, ")").err]

NoInput ==
  [kind |-> "none", lists |-> <<>>, binary |-> FALSE, cut |-> 0,
   offsets |-> <<>>, data |-> <<>>]

LllInit ==
  /\ lllInput = NoInput
  /\ lllResult = NoList
  /\ lllState = "idle"

\* The file holds `lists`, written in ascii or binary, and ends after `cut`
\* tokens; `g` is what the unwritten memory holds
ReadGeneral(kind, lists, binary, cut, g) ==
  LET input == [kind |-> kind, lists |-> lists, binary |-> binary, cut |-> cut,
                offsets |-> <<>>, data |-> <<>>]
      r == ReadLabelListList(InputTokens(input), binary, g)
  IN /\ lllInput' = input
     /\ lllResult' = r.lll
     /\ lllState' = IF r.err THEN "error" ELSE "ok"

\* ReadFacesFile on a file of class faceList
ReadLabelListListFile ==
  /\ lllState = "idle"
  /\ \E lists \in WrittenLists, binary \in BOOLEAN, g \in GarbageValues :
       \E cut \in 0..Len(WriteLabelListList(lists, binary)) :
         ReadGeneral("faceList", lists, binary, cut, g)
  /\ UNCHANGED notLll


\* What a binary faceCompactList file may hold: an offsets list and a data
\* list, each a length followed by a raw block
CompactOffsets == SeqsUpTo(0..MaxSubLen, MaxSubLists + 1)
CompactData == SeqsUpTo(SubListLabels, MaxSubLen)

\* ReadCompactLabelListList, binary: both arrays are sized by the length
\* read and filled from the raw block
ReadCompactBinary(offsets, data) == [Offsets |-> offsets, Data |-> data]

\* ReadFacesFile on a file of class faceCompactList: ascii goes through
\* ReadLabelListList; binary reads the two arrays, or throws where the file
\* ends early
ReadCompactLabelListList ==
  /\ lllState = "idle"
  /\ \/ \E lists \in WrittenLists, g \in GarbageValues :
          \E cut \in 0..Len(WriteLabelListList(lists, FALSE)) :
            ReadGeneral("faceCompactList", lists, FALSE, cut, g)
     \/ \E offsets \in CompactOffsets, data \in CompactData, complete \in BOOLEAN :
          /\ lllInput' = [kind |-> "faceCompactList", lists |-> <<>>, binary |-> TRUE,
                          cut |-> IF complete THEN 2 ELSE 1,
                          offsets |-> offsets, data |-> data]
          /\ lllResult' = IF complete THEN ReadCompactBinary(offsets, data)
                          ELSE ReadCompactBinary(offsets, <<>>)
          /\ lllState' = IF complete THEN "ok" ELSE "error"
  /\ UNCHANGED notLll

\* The entry value and its list are destroyed (a failed read, or the mesh
\* was built); the next read starts from a new vtkFoamEntryValue
DestroyLabelListList ==
  /\ lllState # "idle"
  /\ lllInput' = NoInput
  /\ lllResult' = NoList
  /\ lllState' = "idle"
  /\ UNCHANGED notLll

LllNext == ReadLabelListListFile \/ ReadCompactLabelListList \/ DestroyLabelListList

----------------------------------------------------------------------------
(* vtkFoamFile: Getc, PutBack, ReadNext, the include stack *)

\* What Getc returns at the end of the input, and the byte PutBack stores
\* for it: static_cast<unsigned char>(EOF)
EOF == "EOF"
ByteOf(c) == IF c = EOF THEN "0xFF" ELSE c

\* isspace, isdigit (the "C" locale)
IsSpace(c) == c \in {" ", "\n", "\t"}
IsDigit(c) == c \in {"0", "1", "2", "3", "4", "5", "6", "7", "8", "9"}

\* Open(fileName) on the reader itself: nothing is buffered, BufPtr =
\* BufEndPtr = Outbuf + 1, no include is suspended, InputMode is what it
\* was.  data[1] is Outbuf[0], the byte reserved for PutBack; ptr is BufPtr;
\* rest is what fread has not delivered yet.
OpenedStream(contents, inputMode) ==
  [data |-> <<"?">>, ptr |-> 2, rest |-> contents, stack |-> <<>>, inputMode |-> inputMode]

\* What a read step hands on: the character it stopped at, the stream, and
\* the message of the error it threw ("" if none)
Stopped(c, st) == [c |-> c, st |-> st, err |-> ""]
Failed(c, st, msg) == [c |-> c, st |-> st, err |-> msg]

\* A PutBack that cannot put back the first character of the buffer
PutBackMutant(st, c) ==
  IF st.ptr - 1 < 3
  THEN Failed(c, [st EXCEPT !.ptr = @ - 1], "Attempted duplicated putBack()")
  ELSE Stopped(c, [st EXCEPT !.ptr = @ - 1, !.data[st.ptr - 1] = ByteOf(c)])

\* PutBack(c): throws when BufPtr falls below Outbuf
PutBack(st, c) ==
  IF st.ptr - 1 < 1
  THEN Failed(c, [st EXCEPT !.ptr = @ - 1], "Attempted duplicated putBack()")
  ELSE Stopped(c, [st EXCEPT !.ptr = @ - 1, !.data[st.ptr - 1] = ByteOf(c)])

\* The file an #include suspended, as the vtkFoamFileStack keeps it
Suspended(st) == [data |-> st.data, ptr |-> st.ptr, rest |-> st.rest]

\* CloseIncludedFile, when StackI > 0: the suspended file is current again
CloseIncludedFile(st) ==
  [st EXCEPT !.data = st.stack[Len(st.stack)].data,
             !.ptr = st.stack[Len(st.stack)].ptr,
             !.rest = st.stack[Len(st.stack)].rest,
             !.stack = SubSeq(st.stack, 1, Len(st.stack) - 1)]

\* #define VTK_FOAMFILE_OUTBUFSIZE (131072), scaled to the files of the model
VTK_FOAMFILE_OUTBUFSIZE == 24

\* InflateNext(Outbuf + 1, VTK_FOAMFILE_OUTBUFSIZE), uncompressed: fread
\* delivers what is left of the file, at most a buffer full
Inflated(rest) ==
  SubSeq(rest, 1, IF Len(rest) < VTK_FOAMFILE_OUTBUFSIZE THEN Len(rest)
                  ELSE VTK_FOAMFILE_OUTBUFSIZE)

\* Getc and ReadNext.  The buffer is refilled behind its reserved first
\* byte; at the end of an included file the including file is resumed.
RECURSIVE Getc(_)
Getc(st) ==
  IF st.ptr <= Len(st.data)
  THEN Stopped(st.data[st.ptr], [st EXCEPT !.ptr = @ + 1])
  ELSE IF st.rest # <<>>
  THEN Stopped(st.rest[1],
               [st EXCEPT !.data = <<st.data[1]>> \o Inflated(st.rest), !.ptr = 3,
                          !.rest = SubSeq(@, Len(Inflated(st.rest)) + 1, Len(@))])
  ELSE IF st.stack = <<>> THEN Stopped(EOF, st)
  ELSE Getc(CloseIncludedFile(st))

\* The characters still to come, the suspended files included
RECURSIVE Remaining(_)
Remaining(st) ==
  IF st.stack = <<>> THEN SubSeq(st.data, st.ptr, Len(st.data)) \o st.rest
  ELSE SubSeq(st.data, st.ptr, Len(st.data)) \o st.rest \o Remaining(CloseIncludedFile(st))

\* while (isspace(c = this->Getc())), entered with the character g just read
RECURSIVE SkipSpace(_)
SkipSpace(g) == IF IsSpace(g.c) THEN SkipSpace(Getc(g.st)) ELSE g

\* NextTokenHead, "//": while ((c = this->Getc()) != EOF && c != '\n')
RECURSIVE SkipLineComment(_)
SkipLineComment(g) ==
  IF g.c # EOF /\ g.c # "\n" THEN SkipLineComment(Getc(g.st)) ELSE g

\* NextTokenHead, "/*": skip to the closing "*/"; stops at EOF when there is
\* none, at "/" when it was found
RECURSIVE SkipBlockComment(_)
\* this->PutBack(c) of the character after a "*" that closed nothing
BlockCommentPutBack(pb) == IF pb.err # "" THEN pb ELSE SkipBlockComment(Getc(pb.st))
\* else if ((c = this->Getc()) == '/') break;
BlockCommentStar(g) == IF g.c = "/" THEN g ELSE BlockCommentPutBack(PutBack(g.st, g.c))
SkipBlockComment(g) ==
  IF g.c = EOF THEN g
  ELSE IF g.c # "*" THEN SkipBlockComment(Getc(g.st))
  ELSE BlockCommentStar(Getc(g.st))

\* NextTokenHead: the next semantically valid character
RECURSIVE NextTokenHead(_)
\* after "//...": return at EOF, go round the loop at the newline
AfterLineComment(l) == IF l.c = EOF THEN l ELSE NextTokenHead(l.st)
\* after "/*...": return at EOF, go round the loop after the closing "*/"
AfterBlockComment(b) == IF b.c = EOF \/ b.err # "" THEN b ELSE NextTokenHead(b.st)
\* this->PutBack(c); return '/';
SlashAlone(pb) == [pb EXCEPT !.c = "/"]
\* if (c == '/'): the character after the slash decides
AfterSlash(g) ==
  IF g.c = "/" THEN AfterLineComment(SkipLineComment(Getc(g.st)))
  ELSE IF g.c = "*" THEN AfterBlockComment(SkipBlockComment(Getc(g.st)))
  ELSE SlashAlone(PutBack(g.st, g.c))
TokenHead(g) == IF g.c # "/" THEN g ELSE AfterSlash(Getc(g.st))
NextTokenHead(st) == TokenHead(SkipSpace(Getc(st)))

\* Read: constexpr int MAXLEN = 1024, scaled to the inputs of the model
MAXLEN == 20

\* What a token loop hands on: the character it stopped at, the stream and
\* buf[0 .. charI)
Scanned(c, st, buf) == [c |-> c, st |-> st, buf |-> buf, err |-> ""]

\* Read, number: do { buf[charI++] = c; } while (isdigit(c = Getc()) && charI < MAXLEN),
\* entered with the character g just read
RECURSIVE ReadDigits(_, _)
DigitsWhile(g, buf) ==
  IF IsDigit(g.c) /\ Len(buf) < MAXLEN THEN ReadDigits(g, buf) ELSE Scanned(g.c, g.st, buf)
ReadDigits(g, buf) == DigitsWhile(Getc(g.st), Append(buf, g.c))

\* Read, scalar: while (isdigit(c = Getc()) && charI < MAXLEN) buf[charI++] = c
RECURSIVE ReadFraction(_, _)
ReadFraction(g, buf) ==
  IF IsDigit(g.c) /\ Len(buf) < MAXLEN
  THEN ReadFraction(Getc(g.st), Append(buf, g.c))
  ELSE Scanned(g.c, g.st, buf)

\* Read, scalar: while (isdigit(c) && charI < MAXLEN) { buf[charI++] = c; c = Getc(); }
RECURSIVE ReadExponentDigits(_, _)
ReadExponentDigits(g, buf) ==
  IF IsDigit(g.c) /\ Len(buf) < MAXLEN
  THEN ReadExponentDigits(Getc(g.st), Append(buf, g.c))
  ELSE Scanned(g.c, g.st, buf)

\* Read, scalar: the sign of the exponent, g being the character after 'e'
ExponentSign(g, buf) ==
  IF g.c \in {"+", "-"} /\ Len(buf) < MAXLEN
  THEN ReadExponentDigits(Getc(g.st), Append(buf, g.c))
  ELSE ReadExponentDigits(g, buf)

\* Read, scalar: the exponent part, entered at c = 'e' or 'E'
ReadExponent(c, st, buf) == ExponentSign(Getc(st), Append(buf, c))

\* Read, string: while ((c = Getc()) != EOF && charI < MAXLEN)
RECURSIVE ReadString(_, _, _)
ReadString(g, buf, wasEscape) ==
  IF g.c = EOF \/ Len(buf) >= MAXLEN THEN Scanned(g.c, g.st, buf)
  ELSE IF g.c = "\\" /\ ~wasEscape THEN ReadString(Getc(g.st), buf, TRUE)
  ELSE IF g.c = "\"" /\ ~wasEscape THEN Scanned(g.c, g.st, buf)
  ELSE IF g.c = "\n" /\ ~wasEscape
  THEN [c |-> g.c, st |-> g.st, buf |-> buf, err |-> "Unescaped newline in string constant"]
  ELSE ReadString(Getc(g.st), Append(buf, g.c), FALSE)

\* Read, word: the characters that end a word
EndsWord(c) == c = EOF \/ IsSpace(c) \/ c \in {"\"", "/", ";", "{", "}"}

\* Read, word: inBrace after if (c == '(') inBrace++; else if (c == ')' && --inBrace == -1)
Braces(c, inBrace) ==
  IF c = "(" THEN inBrace + 1 ELSE IF c = ")" THEN inBrace - 1 ELSE inBrace

\* Read, word: do { ... buf[charI++] = c; } while (c = Getc() is no end && charI < MAXLEN)
RECURSIVE ReadWord(_, _, _)
WordWhile(g, buf, inBrace) ==
  IF ~EndsWord(g.c) /\ Len(buf) < MAXLEN THEN ReadWord(g, buf, inBrace)
  ELSE Scanned(g.c, g.st, buf)
ReadWord(g, buf, inBrace) ==
  IF g.c = ")" /\ Braces(g.c, inBrace) = -1 THEN Scanned(g.c, g.st, buf)
  ELSE WordWhile(Getc(g.st), Append(buf, g.c), Braces(g.c, inBrace))

\* vtkFoamToken
Token(type, text) == [type |-> type, text |-> text]
BadToken == Token("TOKEN_ERROR", <<>>)
UndefinedToken == Token("UNDEFINED", <<>>)
\* vtkFoamToken::operator==(const std::string&), operator==(const char)
TokenIsString(tok, text) == tok.type = "STRING" /\ tok.text = text
TokenIsChar(tok, c) == tok.type = "PUNCTUATION" /\ tok.text = <<c>>

\* What Read did: it returned true with a token, returned false, threw, or
\* ran into undefined behaviour
Returned(token, st) == [res |-> "true", token |-> token, st |-> st, err |-> ""]
AtEnd(st) == [res |-> "false", token |-> BadToken, st |-> st, err |-> ""]
Thrown(st, msg) == [res |-> "throw", token |-> UndefinedToken, st |-> st, err |-> msg]
Undefined(st, what) == [res |-> "undefined", token |-> UndefinedToken, st |-> st, err |-> what]

\* Read, after the switch: the checks every number, string and word passes
AfterSwitch(token, c, st, charI) ==
  IF c = EOF THEN Thrown(st, "Unexpected EOF")
  ELSE IF charI = MAXLEN THEN Thrown(st, "Exceeded maximum allowed length")
  ELSE Returned(token, st)

\* this->PutBack(c) followed by the checks after the switch
PutBackAfterSwitch(token, pb, charI) ==
  IF pb.err # "" THEN Thrown(pb.st, pb.err) ELSE AfterSwitch(token, pb.c, pb.st, charI)

\* this->PutBack(c); return true;
PutBackReturn(token, pb) ==
  IF pb.err # "" THEN Thrown(pb.st, pb.err) ELSE Returned(token, pb.st)

\* Read, scalar: if (charI == 1 && buf[0] == '-') the token is the
\* punctuation, else it is strtod(buf)
ScalarToken(e) ==
  IF e.buf = <<"-">> THEN PutBackReturn(Token("PUNCTUATION", <<"-">>), PutBack(e.st, e.c))
  ELSE PutBackAfterSwitch(Token("SCALAR", e.buf), PutBack(e.st, e.c), Len(e.buf))

\* Read, scalar: if ((c == 'e' || c == 'E') && charI < MAXLEN)
ScalarExponent(f) ==
  ScalarToken(IF f.c \in {"e", "E"} /\ Len(f.buf) < MAXLEN
              THEN ReadExponent(f.c, f.st, f.buf) ELSE f)

\* Read, "scalar token": entered at case '.' or by falling through from the
\* number case
ReadScalar(c, st, buf) ==
  ScalarExponent(IF c = "." /\ Len(buf) < MAXLEN
                 THEN ReadFraction(Getc(st), Append(buf, c)) ELSE Scanned(c, st, buf))

\* Read, number: the label token, or the fall through to the scalar
NumberToken(d) ==
  IF d.c \notin {".", "e", "E"} /\ Len(d.buf) < MAXLEN /\ d.c # EOF
  THEN PutBackReturn(Token("LABEL", d.buf), PutBack(d.st, d.c))
  ELSE ReadScalar(d.c, d.st, d.buf)

\* Read, "undetermined number token"
ReadNumber(g) == NumberToken(ReadDigits(g, <<>>))

\* Read, "string token"
StringToken(q) ==
  IF q.err # "" THEN Thrown(q.st, q.err)
  ELSE AfterSwitch(Token("STRING", q.buf), q.c, q.st, Len(q.buf))

\* Read, default: token = buf; this->PutBack(c);
WordToken(w) == PutBackAfterSwitch(Token("STRING", w.buf), PutBack(w.st, w.c), Len(w.buf))

\* The directive and mode words
WordInclude == <<"i", "n", "c", "l", "u", "d", "e">>
WordSinclude == <<"s">> \o WordInclude
WordIncludeIfPresent == WordInclude \o <<"I", "f", "P", "r", "e", "s", "e", "n", "t">>
WordInputMode == <<"i", "n", "p", "u", "t", "M", "o", "d", "e">>
WordMerge == <<"m", "e", "r", "g", "e">>
WordDefault == <<"d", "e", "f", "a", "u", "l", "t">>
WordOverwrite == <<"o", "v", "e", "r", "w", "r", "i", "t", "e">>
WordProtect == <<"p", "r", "o", "t", "e", "c", "t">>
WordWarn == <<"w", "a", "r", "n">>
WordError == <<"e", "r", "r", "o", "r">>

\* #define VTK_FOAMFILE_INCLUDE_STACK_SIZE (10)
VTK_FOAMFILE_INCLUDE_STACK_SIZE == 10

\* The one file an #include can open, next to the file being read
IncludableName == <<"f">>

\* An IncludeFile that pushes once more before it gives up
IncludeFileMutant(st, name, contents) ==
  IF Len(st.stack) > VTK_FOAMFILE_INCLUDE_STACK_SIZE
  THEN Failed(EOF, st, "Exceeded maximum #include recursions")
  ELSE IF name # IncludableName
  THEN Failed(EOF, [st EXCEPT !.stack = Append(@, Suspended(st))],
              "Cannot open file for reading")
  ELSE Stopped(EOF, [st EXCEPT !.data = <<"?">>, !.ptr = 2, !.rest = contents,
                               !.stack = Append(@, Suspended(st))])

\* IncludeFile(name): the current file is suspended and `contents` is read;
\* throws at the recursion limit and when the file cannot be opened
IncludeFile(st, name, contents) ==
  IF Len(st.stack) >= VTK_FOAMFILE_INCLUDE_STACK_SIZE
  THEN Failed(EOF, st, "Exceeded maximum #include recursions")
  ELSE IF name # IncludableName
  THEN Failed(EOF, [st EXCEPT !.stack = Append(@, Suspended(st))],
              "Cannot open file for reading")
  ELSE Stopped(EOF, [st EXCEPT !.data = <<"?">>, !.ptr = 2, !.rest = contents,
                               !.stack = Append(@, Suspended(st))])

\* Read, "#{": swallow everything until a closing "#}"
RECURSIVE SkipVerbatim(_)
\* if (c == '/') this->PutBack(c);
VerbatimPutBack(pb) == IF pb.err # "" THEN pb ELSE SkipVerbatim(pb.st)
\* else if (c == '#') { c = this->Getc(); ... else if (c == '}') break; }
VerbatimHash(g) ==
  IF g.c = "}" THEN g
  ELSE IF g.c # "/" THEN SkipVerbatim(g.st)
  ELSE VerbatimPutBack(PutBack(g.st, g.c))
\* c = this->NextTokenHead(); if (c == EOF) throw
VerbatimHead(h) ==
  IF h.err # "" THEN h
  ELSE IF h.c = EOF THEN Failed(EOF, h.st, "Unexpected EOF while skipping over #{ directive")
  ELSE IF h.c # "#" THEN SkipVerbatim(h.st)
  ELSE VerbatimHash(Getc(h.st))
SkipVerbatim(st) == VerbatimHead(NextTokenHead(st))

\* Read: "low-priority punctuation token"
LowPriorityPunctuation == {";", "{", "}", "[", "]", ":", ",", "=", "+", "*", "/"}

\* Read, #inputMode: the mode a specifier sets, "" for none
InputModeOf(tok) ==
  IF TokenIsString(tok, WordMerge) \/ TokenIsString(tok, WordDefault) THEN "INPUT_MODE_MERGE"
  ELSE IF TokenIsString(tok, WordOverwrite) THEN "INPUT_MODE_OVERWRITE"
  ELSE IF TokenIsString(tok, WordProtect) THEN "INPUT_MODE_MERGE"
  ELSE IF TokenIsString(tok, WordWarn) \/ TokenIsString(tok, WordError) THEN "INPUT_MODE_ERROR"
  ELSE ""

\* vtkFoamToken::ToString is defined for the tokens that hold a string
HoldsString(tok) == tok.type \in {"STRING", "IDENTIFIER"}

\* fileNameToken.ToString(): a token that holds no string yields a name no
\* file has, when it yields anything
FileNameOf(tok) == IF HoldsString(tok) THEN tok.text ELSE <<"0xFF">>

\* vtkFoamFile::Read(token).  `contents` is what the includable file holds;
\* `ub` is what ToString does for a file-name token that holds no string
\* (it dereferences the token's number as a pointer): "crash" or "garbage".
RECURSIVE Read(_, _, _)

\* Read, case '$': the identifier
ReadIdentifier(id) ==
  IF id.res = "false" THEN Thrown(id.st, "Unexpected EOF reading identifier")
  ELSE IF id.res # "true" THEN id
  ELSE IF id.token.type # "STRING" THEN Thrown(id.st, "Expected a word")
  ELSE Returned(Token("IDENTIFIER", id.token.text), id.st)

\* Read, case '#': return this->Read(token) once the included file is open
ReadIncluded(inc, contents, ub) ==
  IF inc.err # "" THEN Thrown(inc.st, inc.err) ELSE Read(inc.st, contents, ub)

\* Read, #include, arg being what Read did for the file name
ReadInclude(arg, contents, ub) ==
  IF arg.res = "false" THEN Thrown(arg.st, "Unexpected EOF reading filename")
  ELSE IF arg.res # "true" THEN arg
  ELSE IF ~HoldsString(arg.token) /\ ub = "crash"
  THEN Undefined(arg.st, "ToString of a token that holds no string")
  ELSE ReadIncluded(IncludeFile(arg.st, FileNameOf(arg.token), contents), contents, ub)

\* Read, #sinclude and #includeIfPresent: the file is allowed to be missing
ReadSinclude(arg, contents, ub) ==
  IF arg.res = "false" THEN Thrown(arg.st, "Unexpected EOF reading filename")
  ELSE IF arg.res # "true" THEN arg
  ELSE IF ~HoldsString(arg.token) /\ ub = "crash"
  THEN Undefined(arg.st, "ToString of a token that holds no string")
  ELSE IF FileNameOf(arg.token) # IncludableName THEN Read(arg.st, contents, ub)
  ELSE ReadIncluded(IncludeFile(arg.st, FileNameOf(arg.token), contents), contents, ub)

\* Read, #inputMode, arg being what Read did for the specifier
ReadInputMode(arg, contents, ub) ==
  IF arg.res = "false" THEN Thrown(arg.st, "Unexpected EOF reading inputMode specifier")
  ELSE IF arg.res # "true" THEN arg
  ELSE IF InputModeOf(arg.token) = ""
  THEN Thrown(arg.st, "Expected one of inputMode specifiers")
  ELSE Read([arg.st EXCEPT !.inputMode = InputModeOf(arg.token)], contents, ub)

\* Read, "#{": return this->Read(token) after the closing "#}"
ReadVerbatim(v, contents, ub) ==
  IF v.err # "" THEN Thrown(v.st, v.err) ELSE Read(v.st, contents, ub)

\* Read, case '#', d being what Read did for the directive
ReadDirective(d, contents, ub) ==
  IF d.res = "false" THEN Thrown(d.st, "Unexpected EOF reading directive")
  ELSE IF d.res # "true" THEN d
  ELSE IF TokenIsString(d.token, WordInclude)
  THEN ReadInclude(Read(d.st, contents, ub), contents, ub)
  ELSE IF TokenIsString(d.token, WordSinclude) \/ TokenIsString(d.token, WordIncludeIfPresent)
  THEN ReadSinclude(Read(d.st, contents, ub), contents, ub)
  ELSE IF TokenIsString(d.token, WordInputMode)
  THEN ReadInputMode(Read(d.st, contents, ub), contents, ub)
  ELSE IF TokenIsChar(d.token, "{") THEN ReadVerbatim(SkipVerbatim(d.st), contents, ub)
  ELSE Thrown(d.st, "Unsupported directive")

\* Read, switch (c), h being the token head
ReadSwitch(h, contents, ub) ==
  IF h.err # "" THEN Thrown(h.st, h.err)
  ELSE IF h.c \in {"(", ")"} THEN Returned(Token("PUNCTUATION", <<h.c>>), h.st)
  ELSE IF IsDigit(h.c) \/ h.c = "-" THEN ReadNumber(h)
  ELSE IF h.c = "." THEN ReadScalar(h.c, h.st, <<>>)
  ELSE IF h.c \in LowPriorityPunctuation THEN Returned(Token("PUNCTUATION", <<h.c>>), h.st)
  ELSE IF h.c = "\"" THEN StringToken(ReadString(Getc(h.st), <<>>, FALSE))
  ELSE IF h.c = EOF THEN AtEnd(h.st)
  ELSE IF h.c = "$" THEN ReadIdentifier(Read(h.st, contents, ub))
  ELSE IF h.c = "#" THEN ReadDirective(Read(h.st, contents, ub), contents, ub)
  ELSE WordToken(ReadWord(h, <<>>, 0))

\* Read: if (c == '/') { this->PutBack(c); c = this->NextTokenHead(); }
HeadPutBack(pb) == IF pb.err # "" THEN pb ELSE NextTokenHead(pb.st)
ReadHead(g) == IF g.c # "/" THEN g ELSE HeadPutBack(PutBack(g.st, g.c))

Read(st, contents, ub) == ReadSwitch(ReadHead(SkipSpace(Getc(st))), contents, ub)

\* Most pieces a file of the model is made of
MaxPieces == 2

\* A word and a number one character short of MAXLEN
LongWord == [i \in 1..(MAXLEN - 1) |-> "a"]
LongNumber == [i \in 1..(MAXLEN - 1) |-> "1"]

\* The pieces files are made of: single characters, and the directives
Directive(word) == <<"#">> \o word \o <<" ">>
QuotedName == <<"\"", "f", "\"">>
FilePieces ==
  {<<c>> : c \in {"1", ".", "e", "-", "a", " ", "\n", ";", "(", ")", "\"", "/", "*",
                  "$", "\\"}}
    \cup {Directive(WordInclude), QuotedName,
          Directive(WordInclude) \o <<"1", " ">>,
          Directive(WordSinclude) \o <<"\"", "g", "\"", " ">>,
          Directive(WordIncludeIfPresent) \o QuotedName,
          Directive(WordInputMode) \o WordOverwrite \o <<" ">>,
          Directive(WordInputMode), <<"#", "{">>, <<"#", "}">>,
          LongWord, LongNumber}

RECURSIVE Flatten(_)
Flatten(ps) == IF ps = <<>> THEN <<>> ELSE Head(ps) \o Flatten(Tail(ps))

\* What the file being read may hold, and what the includable file may hold
FileContents == {Flatten(ps) : ps \in SeqsUpTo(FilePieces, MaxPieces)}
IncludedContents ==
  {<<>>, <<"1">>, <<"1", " ">>, <<"a", ";">>, Directive(WordInclude) \o QuotedName,
   Directive(WordSinclude) \o QuotedName}

\* A vtkFoamFile as constructed: no file is open
ClosedStream ==
  [data |-> <<>>, ptr |-> 0, rest |-> <<>>, stack |-> <<>>, inputMode |-> "INPUT_MODE_MERGE"]

TokInit ==
  /\ stream = ClosedStream
  /\ tokBefore = <<>>
  /\ tokResult = "closed"
  /\ tokToken = UndefinedToken
  /\ tokError = ""

\* Open(fileName)
Open ==
  /\ tokResult = "closed"
  /\ \E contents \in FileContents : stream' = OpenedStream(contents, stream.inputMode)
  /\ tokBefore' = <<>>
  /\ tokResult' = "none"
  /\ tokToken' = UndefinedToken
  /\ tokError' = ""
  /\ UNCHANGED notTok

\* Read(token), on an open file no Read has failed on
ReadToken ==
  /\ tokResult \in {"none", "true", "false"}
  /\ \E contents \in IncludedContents, ub \in {"crash", "garbage"} :
       \E r \in {Read(stream, contents, ub)} :
          /\ stream' = r.st
          /\ tokBefore' = Remaining(stream)
          /\ tokResult' = r.res
          /\ tokToken' = r.token
          /\ tokError' = r.err
  /\ UNCHANGED notTok

\* Close(): the included files and the file are closed, InputMode stays.  A
\* caller does so when it is done with the file and when Read threw.
Close ==
  /\ tokResult \in {"none", "true", "false", "throw"}
  /\ stream' = [ClosedStream EXCEPT !.inputMode = stream.inputMode]
  /\ tokBefore' = <<>>
  /\ tokResult' = "closed"
  /\ tokToken' = UndefinedToken
  /\ tokError' = ""
  /\ UNCHANGED notTok

TokNext == Open \/ ReadToken \/ Close

----------------------------------------------------------------------------
(* CheckFaceList, InsertCellsToGrid, MakeInternalMesh, InsertFacesToGrid *)

\* Most cells of a mesh of the model, most labels of a zone
MaxCells == 2
MaxLabels == 2

\* InsertCellsToGrid: constexpr vtkIdType maxNPoints = 256 and
\* maxNPolyPoints = 1024, scaled to the cells of the model
maxNPoints == 8
maxNPolyPoints == 32

\* The points file of the model holds the points 0 .. 8
MeshPoints == 9

\* vtkFoamLabelListListImpl::GetValue(cellId, subIndex)
GetValue(lll, cellId, subIndex) == lll.Data[lll.Offsets[cellId + 1] + subIndex + 1]

\* The vtkFoamLabelListList a faces file with the faces `lists` is read into
RECURSIVE TotalLen(_, _)
TotalLen(lists, n) == IF n = 0 THEN 0 ELSE TotalLen(lists, n - 1) + Len(lists[n])
ListOfLists(lists) ==
  [Offsets |-> [i \in 1..(Len(lists) + 1) |-> TotalLen(lists, i - 1)], Data |-> Flatten(lists)]

\* The cells the meshes of the model are made of, each given by its faces
TetraCell == <<<<0, 1, 2>>, <<0, 3, 1>>, <<1, 3, 2>>, <<0, 2, 3>>>>
PyramidCell == <<<<0, 1, 2, 3>>, <<0, 4, 1>>, <<1, 4, 2>>, <<2, 4, 3>>, <<3, 4, 0>>>>
WedgeCell == <<<<0, 1, 2>>, <<3, 5, 4>>, <<0, 3, 4, 1>>, <<1, 4, 5, 2>>, <<2, 5, 3, 0>>>>
\* two triangles and three quads that close no prism
FalseWedgeCell == <<<<0, 1, 2>>, <<6, 7, 8>>, <<0, 3, 4, 1>>, <<1, 4, 5, 2>>, <<2, 5, 3, 0>>>>
HexCell ==
  <<<<0, 3, 2, 1>>, <<4, 5, 6, 7>>, <<0, 1, 5, 4>>, <<1, 2, 6, 5>>, <<2, 3, 7, 6>>,
    <<3, 0, 4, 7>>>>
\* five quads: a hexahedron with its lid taken off
FiveQuadCell ==
  <<<<0, 3, 2, 1>>, <<0, 1, 5, 4>>, <<1, 2, 6, 5>>, <<2, 3, 7, 6>>, <<3, 0, 4, 7>>>>
ThreeTriCell == <<<<0, 1, 2>>, <<0, 3, 1>>, <<1, 3, 2>>>>
PentagonCell == <<<<0, 1, 2, 3, 4>>, <<0, 5, 1>>>>
\* a cell index no face names
NoFaceCell == <<>>
\* more than maxNPoints points in the first face, in all faces together, and
\* more than maxNPolyPoints entries of the face stream
NonagonCell == <<<<0, 1, 2, 3, 4, 5, 6, 7, 8>>, <<0, 1, 2>>>>
NinePointCell == <<<<0, 1, 2>>, <<3, 4, 5>>, <<6, 7, 8>>>>
LongStreamCell ==
  <<<<0, 1, 2, 3, 4, 5>>, <<0, 1, 2, 3, 4, 5>>, <<0, 1, 2, 3, 4, 5>>, <<0, 1, 2, 3, 4, 5>>,
    <<0, 1, 2, 3, 4, 5>>>>
CellShapes ==
  {TetraCell, PyramidCell, WedgeCell, FalseWedgeCell, HexCell, FiveQuadCell, ThreeTriCell,
   PentagonCell, NoFaceCell, NonagonCell, NinePointCell, LongStreamCell}
\* cells CheckFaceList rejects: a face of two points, a point past the last
BadCellShapes == {<<<<0, 1>>, <<0, 1, 2>>>>, <<<<0, 1, 9>>>>}

\* The owner file of a mesh whose cell c, c + 1, ... are `shapes`: every
\* face belongs to its cell
RECURSIVE OwnersOf(_, _)
OwnersOf(shapes, c) ==
  IF shapes = <<>> THEN <<>>
  ELSE [i \in 1..Len(Head(shapes)) |-> c] \o OwnersOf(Tail(shapes), c + 1)

\* What the mesh files hold: the faces, the owner and the neighbour list
MeshFilesOf(shapes) == [faces |-> Flatten(shapes), owner |-> OwnersOf(shapes, 0), neigh |-> <<>>]
\* two cells of three triangles that share face 0
SharedFaceMesh ==
  [faces |-> <<<<0, 1, 2>>, <<0, 3, 1>>, <<1, 3, 2>>, <<0, 1, 4>>, <<1, 2, 4>>>>,
   owner |-> <<0, 0, 0, 1, 1>>, neigh |-> <<1>>]
\* a hexahedron with its faces in another order, the opposite face among
\* the faces 1 .. 4; six quadrilaterals that are one face six times
TurnedHexCell ==
  <<<<0, 1, 5, 4>>, <<1, 2, 6, 5>>, <<2, 3, 7, 6>>, <<0, 3, 2, 1>>, <<3, 0, 4, 7>>,
    <<4, 5, 6, 7>>>>
SixQuadCell ==
  <<<<0, 1, 2, 3>>, <<0, 1, 2, 3>>, <<0, 1, 2, 3>>, <<0, 1, 2, 3>>, <<0, 1, 2, 3>>,
    <<0, 1, 2, 3>>>>
\* two hexahedra that share the face 0
TwoHexMesh ==
  [faces |-> <<<<4, 5, 6, 7>>, <<0, 3, 2, 1>>, <<0, 1, 5, 4>>, <<1, 2, 6, 5>>, <<2, 3, 7, 6>>,
               <<3, 0, 4, 7>>, <<4, 5, 1, 0>>, <<5, 6, 2, 1>>, <<6, 7, 3, 2>>, <<7, 4, 0, 3>>,
               <<0, 1, 2, 3>>>>,
   owner |-> <<0, 0, 0, 0, 0, 0, 1, 1, 1, 1, 1>>, neigh |-> <<1>>]
\* a cell of two faces and a cell of six quadrilaterals that takes both as
\* its base and its opposite face without a point of the one being joined
\* to a point of the other
LooseHexMesh ==
  [faces |-> <<<<0, 1, 2, 3>>, <<4, 5, 6, 8>>, <<0, 3, 7, 4>>, <<1, 2, 6, 5>>, <<2, 3, 7, 6>>,
               <<0, 1, 5, 4>>>>,
   owner |-> <<0, 0, 1, 1, 1, 1>>, neigh |-> <<1, 1>>]
HexMeshFiles ==
  {MeshFilesOf(<<TurnedHexCell>>), MeshFilesOf(<<SixQuadCell>>), TwoHexMesh, LooseHexMesh}
MeshFiles ==
  {MeshFilesOf(shapes) : shapes \in SeqsUpTo(CellShapes, MaxCells)}
    \cup {SharedFaceMesh} \cup HexMeshFiles
BadMeshFiles == {MeshFilesOf(<<shape>>) : shape \in BadCellShapes}

\* The faces InsertCellsToGrid's flatness test can find flat: those of five
\* or more points, an odd number
CanBeFlat(face) == Len(face) >= 5 /\ Len(face) % 2 = 1

\* The mesh as RequestData hands it on: meshFaces from ReadFacesFile,
\* FaceOwner, NumCells and meshCells from ReadOwnerNeighbourFiles, NumPoints
\* from ReadPointsFile; flat tells whether the points lie so that the
\* flatness test succeeds
MeshRead(files, created, flat) ==
  [meshFaces |-> ListOfLists(files.faces), FaceOwner |-> files.owner,
   NumCells |-> created.NumCells, meshCells |-> created.meshCells,
   NumPoints |-> MeshPoints, flat |-> flat]
MeshOf(files, flat) == MeshRead(files, CreateCellFaces(files.owner, files.neigh), flat)

\* CheckFaceList(faces)
CheckFaceList(faces, nPoints) ==
  \A facei \in 0..(GetNumberOfElements(faces) - 1) :
    /\ GetSize(faces, facei) >= 3
    /\ \A pointi \in Range(GetCell(faces, facei)) : pointi >= 0 /\ pointi < nPoints

\* A cell of a vtkUnstructuredGrid or vtkPolyData: its type, its number of
\* points and, for the polyhedra and the cells a polyhedron is decomposed
\* into and the hexahedra, its points; id is the cell or face InsertNextCell
\* was called for. The point order of a wedge, pyramid or tetrahedron is not
\* part of the model.
Cell(type, npts, pts, id) == [type |-> type, npts |-> npts, pts |-> pts, id |-> id]
EmptyCell(id) == Cell("VTK_EMPTY_CELL", 0, <<>>, id)

\* vtkUnstructuredGrid::InsertNextCell, vtkPolyData::InsertNextCell
InsertNextCell(grid, cell) == Append(grid, cell)

Reversed(s) == [i \in 1..Len(s) |-> s[Len(s) + 1 - i]]

\* meshFaces.GetSize(cellFaces[facei]) for every face of a cell
FaceSizesOf(meshFaces, cellFaces) ==
  [facei \in 1..Len(cellFaces) |-> GetSize(meshFaces, cellFaces[facei])]

\* for (facei ...) { all = (size == n); if (!all) break; }
AllFacesHave(sizes, n) == \A facei \in 1..Len(sizes) : sizes[facei] = n

\* InsertCellsToGrid, five faces: count the triangles and quads up to the
\* first face that is neither
RECURSIVE CountTrisQuads(_, _, _, _)
CountTrisQuads(sizes, facei, nTris, nQuads) ==
  IF facei > Len(sizes) THEN [nTris |-> nTris, nQuads |-> nQuads]
  ELSE IF sizes[facei] = 3 THEN CountTrisQuads(sizes, facei + 1, nTris + 1, nQuads)
  ELSE IF sizes[facei] = 4 THEN CountTrisQuads(sizes, facei + 1, nTris, nQuads + 1)
  ELSE [nTris |-> nTris, nQuads |-> nQuads]

FiveFaceType(n) ==
  IF n.nTris = 2 /\ n.nQuads = 3 THEN "VTK_WEDGE"
  ELSE IF n.nTris = 4 /\ n.nQuads = 1 THEN "VTK_PYRAMID"
  ELSE "VTK_POLYHEDRON"

\* InsertCellsToGrid, "determine type of the cell"
ShapeOf(sizes) ==
  IF Len(sizes) = 6
  THEN IF AllFacesHave(sizes, 4) THEN "VTK_HEXAHEDRON" ELSE "VTK_POLYHEDRON"
  ELSE IF Len(sizes) = 5 THEN FiveFaceType(CountTrisQuads(sizes, 1, 0, 0))
  ELSE IF Len(sizes) = 4
  THEN IF AllFacesHave(sizes, 3) THEN "VTK_TETRA" ELSE "VTK_POLYHEDRON"
  ELSE "VTK_POLYHEDRON"

\* InsertCellsToGrid, "Not a known (standard) primitive mesh-shape"
CellTypeOf(sizes) ==
  IF ShapeOf(sizes) = "VTK_POLYHEDRON" /\ AllFacesHave(sizes, 0) THEN "VTK_EMPTY_CELL"
  ELSE ShapeOf(sizes)

\* The face of cell cellId belongs to it as owner
IsOwnerFace(m, facei, cellId) == GetLabelValue(m.FaceOwner, facei) = cellId

\* The points of a face, flipped if it is a neighbour face
OwnerOrderPoints(m, facei, cellId) ==
  IF IsOwnerFace(m, facei, cellId) THEN GetCell(m.meshFaces, facei)
  ELSE Reversed(GetCell(m.meshFaces, facei))

\* InsertCellsToGrid, wedge: "find the base face number", the first
\* triangle, as an index into cellFaces
WedgeBaseFaceId(sizes) ==
  (CHOOSE j \in 1..5 : sizes[j] = 3 /\ \A k \in 1..(j - 1) : sizes[k] # 3) - 1

\* wedge: the last triangle the loop over the other faces meets
\* (cellOppositeFaceI), and the first face it reads the pivot point from
WedgeOppositeFace(cellFaces, sizes) ==
  cellFaces[CHOOSE j \in 1..5 : /\ j - 1 # WedgeBaseFaceId(sizes) /\ sizes[j] = 3
                                 /\ \A k \in (j + 1)..5 : sizes[k] # 3]
WedgePivotFace(cellFaces, sizes) ==
  cellFaces[CHOOSE j \in 1..5 : sizes[j] # 3 /\ \A k \in 1..(j - 1) : sizes[k] = 3]

\* wedge: for (; pointI < 4; pointI++) until faceIPoints[pointI] is point 0
\* or point 2 of the base face
RECURSIVE WedgeMatch(_, _, _, _)
WedgeMatch(faceIPoints, baseFacePoint0, baseFacePoint2, pointI) ==
  IF pointI >= 4 THEN 4
  ELSE IF faceIPoints[pointI + 1] \in {baseFacePoint0, baseFacePoint2} THEN pointI
  ELSE WedgeMatch(faceIPoints, baseFacePoint0, baseFacePoint2, pointI + 1)

\* wedge: the point before and the point after the matched one on the base
\* face; found0Dup is pointI < 4 and faceIPoints[pointI] = point 0
Found0Dup(faceIPoints, cellPoints, pointI) ==
  pointI < 4 /\ faceIPoints[pointI + 1] = cellPoints[1]
BaseFacePrevPoint(faceIPoints, cellPoints, pointI) ==
  IF Found0Dup(faceIPoints, cellPoints, pointI) THEN cellPoints[3] ELSE cellPoints[2]
BaseFaceNextPoint(faceIPoints, cellPoints, pointI) ==
  IF Found0Dup(faceIPoints, cellPoints, pointI) THEN cellPoints[2] ELSE cellPoints[1]

\* wedge: the pivot point faceI yields, pointI being where the match was
WedgePivotAt(faceIPoints, cellPoints, pointI, isOwner) ==
  IF faceIPoints[((pointI + 1) % 4) + 1]
       = (IF isOwner THEN BaseFacePrevPoint(faceIPoints, cellPoints, pointI)
          ELSE BaseFaceNextPoint(faceIPoints, cellPoints, pointI))
  THEN faceIPoints[((3 + pointI) % 4) + 1]
  ELSE faceIPoints[((pointI + 1) % 4) + 1]
WedgePivotOf(faceIPoints, cellPoints, isOwner) ==
  WedgePivotAt(faceIPoints, cellPoints,
               WedgeMatch(faceIPoints, cellPoints[1], cellPoints[3], 0), isOwner)

\* wedge: the points 0 .. 2 of the cell, the base face, flipped if it is a
\* neighbour face
WedgeBasePoints(m, cellFaces, sizes, cellId) ==
  OwnerOrderPoints(m, cellFaces[WedgeBaseFaceId(sizes) + 1], cellId)

\* wedge: the pivot point is found in the opposite face; if it is not,
\* "this cell was suspected to be a wedge but it is not"
WedgePivotFound(m, cellFaces, sizes, cellId) ==
  WedgePivotOf(GetCell(m.meshFaces, WedgePivotFace(cellFaces, sizes)),
               WedgeBasePoints(m, cellFaces, sizes, cellId),
               IsOwnerFace(m, WedgePivotFace(cellFaces, sizes), cellId))
    \in Range(GetCell(m.meshFaces, WedgeOppositeFace(cellFaces, sizes)))

\* InsertCellsToGrid, hexahedron: "get first face in correct order", the
\* points 0 .. 3 of the cell: the base face, flipped "if it is an owner face"
HexBasePoints(m, cellFaces, cellId) ==
  IF IsOwnerFace(m, cellFaces[1], cellId) THEN Reversed(GetCell(m.meshFaces, cellFaces[1]))
  ELSE GetCell(m.meshFaces, cellFaces[1])

\* hexahedron: cellOppositeFaceI, pivotPoint and dupPoint before the loop
\* over the faces 1 .. 4, and whether the loop was left by break
HexScanStart == [cellOppositeFaceI |-> -1, pivotPoint |-> -1, dupPoint |-> -1, left |-> FALSE]

\* hexahedron: foundDup for a face whose match was at pointI
FoundDup(faceIPoints, cellPoints, pointI) ==
  IF pointI >= 4 THEN -1 ELSE IF faceIPoints[pointI + 1] = cellPoints[1] THEN 0 ELSE 2

\* hexahedron: "find the pivot point if still haven't"
HexPivotAt(faceIPoints, cellPoints, pointI, foundDup, isOwner) ==
  IF faceIPoints[((pointI + 1) % 4) + 1]
       = (IF isOwner THEN cellPoints[1 + foundDup + 1] ELSE cellPoints[3 - foundDup + 1])
  THEN faceIPoints[((3 + pointI) % 4) + 1]
  ELSE faceIPoints[((pointI + 1) % 4) + 1]

\* hexahedron: one turn of the loop over the faces 1 .. 4
HexFaceAt(scan, faceIPoints, cellPoints, pointI, cellFaceI, isOwner) ==
  IF FoundDup(faceIPoints, cellPoints, pointI) >= 0
  THEN IF scan.pivotPoint = -1
       THEN [scan EXCEPT !.dupPoint = FoundDup(faceIPoints, cellPoints, pointI),
                         !.pivotPoint = HexPivotAt(faceIPoints, cellPoints, pointI,
                                                   FoundDup(faceIPoints, cellPoints, pointI),
                                                   isOwner),
                         !.left = scan.cellOppositeFaceI >= 0]
       ELSE scan
  ELSE [scan EXCEPT !.cellOppositeFaceI = cellFaceI, !.left = scan.pivotPoint >= 0]

HexFace(scan, faceIPoints, cellPoints, cellFaceI, isOwner) ==
  HexFaceAt(scan, faceIPoints, cellPoints,
            WedgeMatch(faceIPoints, cellPoints[1], cellPoints[3], 0), cellFaceI, isOwner)

\* hexahedron: for (int faceI = 1; faceI < 5; faceI++) "skip face 0 and 5"
RECURSIVE HexScan(_, _, _, _, _, _)
HexScan(m, cellFaces, cellId, cellPoints, faceI, scan) ==
  IF faceI >= 5 \/ scan.left THEN scan
  ELSE HexScan(m, cellFaces, cellId, cellPoints, faceI + 1,
               HexFace(scan, GetCell(m.meshFaces, cellFaces[faceI + 1]), cellPoints,
                       cellFaces[faceI + 1], IsOwnerFace(m, cellFaces[faceI + 1], cellId)))

\* hexahedron: "if the opposite face is not found until face 4, face 5 is
\* always the opposite face"
HexOppositeFaceMutant(cellFaces, scan) == cellFaces[6]
HexOppositeFace(cellFaces, scan) ==
  IF scan.cellOppositeFaceI = -1 THEN cellFaces[6] ELSE scan.cellOppositeFaceI

\* hexahedron: "find the pivot point in opposite face", 4 if it is not
\* there, and "shift the pivot point if the point corresponds to point 2 of
\* the base face"
RECURSIVE FindPivot(_, _, _)
FindPivot(oppositeFacePoints, pivotPoint, pivotPointI) ==
  IF pivotPointI >= 4 THEN 4
  ELSE IF oppositeFacePoints[pivotPointI + 1] = pivotPoint THEN pivotPointI
  ELSE FindPivot(oppositeFacePoints, pivotPoint, pivotPointI + 1)
HexPivotPointI(oppositeFacePoints, scan) ==
  IF scan.dupPoint = 2 THEN (FindPivot(oppositeFacePoints, scan.pivotPoint, 0) + 2) % 4
  ELSE FindPivot(oppositeFacePoints, scan.pivotPoint, 0)

\* hexahedron: "copy the face-point list of the opposite face to cell-point
\* list", the points 4 .. 7 of the cell
HexTopPoints(oppositeFacePoints, pivotPointI, isOwner) ==
  IF isOwner
  THEN SubSeq(oppositeFacePoints, pivotPointI + 1, 4) \o SubSeq(oppositeFacePoints, 1, pivotPointI)
  ELSE Reversed(SubSeq(oppositeFacePoints, 1, pivotPointI + 1))
         \o Reversed(SubSeq(oppositeFacePoints, pivotPointI + 2, 4))

\* hexahedron: the copy for a face that is not the cell's own starts at
\* oppositeFacePoints[pivotPointI], which is past the face if the pivot point
\* was not found in it
HexCopyOutOfBounds(pivotPointI, isOwner) == pivotPointI >= 4 /\ ~isOwner

HexOppositeOf(m, cellFaces, cellId, scan) ==
  [points |-> GetCell(m.meshFaces, HexOppositeFace(cellFaces, scan)),
   pivotPointI |-> HexPivotPointI(GetCell(m.meshFaces, HexOppositeFace(cellFaces, scan)), scan),
   isOwner |-> IsOwnerFace(m, HexOppositeFace(cellFaces, scan), cellId)]

HexOpposite(m, cellFaces, cellId) ==
  HexOppositeOf(m, cellFaces, cellId,
                HexScan(m, cellFaces, cellId, HexBasePoints(m, cellFaces, cellId), 1,
                        HexScanStart))

\* hexahedron: the eight points of the cell; the points 4 .. 7 of a copy
\* that reads past the face are what InsertOutOfBounds chooses
HexOutOfBounds(opposite) == HexCopyOutOfBounds(opposite.pivotPointI, opposite.isOwner)
HexPointsOf(basePoints, opposite) ==
  IF HexOutOfBounds(opposite) THEN basePoints
  ELSE basePoints \o HexTopPoints(opposite.points, opposite.pivotPointI, opposite.isOwner)
HexPoints(m, cellFaces, cellId) ==
  HexPointsOf(HexBasePoints(m, cellFaces, cellId), HexOpposite(m, cellFaces, cellId))

\* InsertCellsToGrid: the turn for cell cellId reads past a face
ReadsOutOfBounds(m, cellId) ==
  /\ CellTypeOf(FaceSizesOf(m.meshFaces, GetCell(m.meshCells, cellId))) = "VTK_HEXAHEDRON"
  /\ HexOutOfBounds(HexOpposite(m, GetCell(m.meshCells, cellId), cellId))

\* What one turn of the loop over the cells did: the cells it inserted into
\* the grid, the tuples it appended to additionalCells, the points of a
\* polyhedron it decomposed, and whether it returned from InsertCellsToGrid
Inserted(cell) ==
  [cells |-> <<cell>>, additional |-> <<>>, decomposed |-> FALSE, polyCellPoints |-> <<>>,
   exit |-> "continue"]
TooLargePolyhedron ==
  [cells |-> <<>>, additional |-> <<>>, decomposed |-> FALSE, polyCellPoints |-> <<>>,
   exit |-> "return"]

\* Polyhedron, not decomposed: cellPoints[0 .. nPoints) and
\* polyPoints[0 .. nPolyPoints) after the first face
PolyFirstFace(pts) ==
  IF Len(pts) > maxNPoints \/ Len(pts) + 1 > maxNPolyPoints
  THEN [cellPoints |-> <<>>, polyPoints |-> <<>>, tooLarge |-> TRUE]
  ELSE [cellPoints |-> pts, polyPoints |-> <<Len(pts)>> \o pts, tooLarge |-> FALSE]

\* Polyhedron, not decomposed: one point of a later face
PolyPoint(acc, faceJPointK) ==
  IF acc.tooLarge THEN acc
  ELSE IF faceJPointK \notin Range(acc.cellPoints) /\ Len(acc.cellPoints) >= maxNPoints
  THEN [acc EXCEPT !.tooLarge = TRUE]
  ELSE IF Len(acc.polyPoints) >= maxNPolyPoints THEN [acc EXCEPT !.tooLarge = TRUE]
  ELSE [cellPoints |-> IF faceJPointK \in Range(acc.cellPoints) THEN acc.cellPoints
                       ELSE Append(acc.cellPoints, faceJPointK),
        polyPoints |-> Append(acc.polyPoints, faceJPointK),
        tooLarge |-> FALSE]

RECURSIVE PolyPoints(_, _, _)
PolyPoints(acc, pts, k) ==
  IF k > Len(pts) THEN acc ELSE PolyPoints(PolyPoint(acc, pts[k]), pts, k + 1)

\* Polyhedron, not decomposed: a later face, its points in owner order
PolyFace(acc, pts) ==
  IF acc.tooLarge THEN acc
  ELSE IF Len(acc.polyPoints) >= maxNPolyPoints THEN [acc EXCEPT !.tooLarge = TRUE]
  ELSE PolyPoints([acc EXCEPT !.polyPoints = Append(@, Len(pts))], pts, 1)

\* Polyhedron, not decomposed: for (size_t j = 1; j < cellFaces.size(); j++)
RECURSIVE PolyFaces(_, _, _, _, _)
PolyFaces(m, cellFaces, cellId, j, acc) ==
  IF j >= Len(cellFaces) THEN acc
  ELSE PolyFaces(m, cellFaces, cellId, j + 1,
                 PolyFace(acc, OwnerOrderPoints(m, cellFaces[j + 1], cellId)))

\* Polyhedron, not decomposed: the cell, or the return for one too large
PolyhedronCell(acc, cellId) ==
  IF acc.tooLarge THEN TooLargePolyhedron
  ELSE Inserted(Cell("VTK_POLYHEDRON", Len(acc.cellPoints), acc.cellPoints, cellId))

InsertPolyhedron(m, cellFaces, cellId) ==
  PolyhedronCell(PolyFaces(m, cellFaces, cellId, 1,
                           PolyFirstFace(OwnerOrderPoints(m, cellFaces[1], cellId))),
                 cellId)

\* Decomposition: flipNeighbor, and vertI, shifted to 1 "if the triangle of
\* a decomposed face is going to be flat"
FlipNeighbor(m, facei, cellId) == IF IsOwnerFace(m, facei, cellId) THEN -1 ELSE 1
FirstVertI(m, faceJPoints) == IF CanBeFlat(faceJPoints) /\ m.flat THEN 1 ELSE 2

\* Decomposition: "decompose a face into quads in order": the pyramids
FacePyramidsMutant(faceJPoints, flipNeighbor, vertI, point0, centroid, cellId) ==
  IF vertI >= Len(faceJPoints) - 1 - (Len(faceJPoints) % 2) THEN <<>>
  ELSE <<Cell("VTK_PYRAMID", 5,
              <<point0, faceJPoints[vertI - flipNeighbor + 1], faceJPoints[vertI + 1],
                faceJPoints[vertI + flipNeighbor + 1], centroid>>, cellId)>>
RECURSIVE FacePyramids(_, _, _, _, _, _)
FacePyramids(faceJPoints, flipNeighbor, vertI, point0, centroid, cellId) ==
  IF vertI >= Len(faceJPoints) - 1 - (Len(faceJPoints) % 2) THEN <<>>
  ELSE <<Cell("VTK_PYRAMID", 5,
              <<point0, faceJPoints[vertI - flipNeighbor + 1], faceJPoints[vertI + 1],
                faceJPoints[vertI + flipNeighbor + 1], centroid>>, cellId)>>
         \o FacePyramids(faceJPoints, flipNeighbor, vertI + 2, point0, centroid, cellId)

\* Decomposition: vertI when the loop over the quads is left
RECURSIVE LastVertI(_, _)
LastVertI(faceJPoints, vertI) ==
  IF vertI >= Len(faceJPoints) - 1 - (Len(faceJPoints) % 2) THEN vertI
  ELSE LastVertI(faceJPoints, vertI + 2)

\* Decomposition: "if the number of vertices is odd there's a triangle"
FaceTetra(faceJPoints, flipNeighbor, vertI, point0, centroid, cellId) ==
  IF Len(faceJPoints) % 2 = 0 THEN <<>>
  ELSE IF flipNeighbor = -1
  THEN <<Cell("VTK_TETRA", 4,
              <<point0, faceJPoints[vertI + 1], faceJPoints[vertI], centroid>>, cellId)>>
  ELSE <<Cell("VTK_TETRA", 4,
              <<point0, faceJPoints[vertI], faceJPoints[vertI + 1], centroid>>, cellId)>>

\* Decomposition: the cells face j is decomposed into, vertI being where the
\* vertex loop starts
FaceSubCells(faceJPoints, flipNeighbor, vertI, centroid, cellId) ==
  FacePyramids(faceJPoints, flipNeighbor, vertI,
               faceJPoints[IF vertI = 2 THEN 1 ELSE Len(faceJPoints)], centroid, cellId)
    \o FaceTetra(faceJPoints, flipNeighbor, LastVertI(faceJPoints, vertI),
                 faceJPoints[IF vertI = 2 THEN 1 ELSE Len(faceJPoints)], centroid, cellId)

\* Decomposition: the cells of all faces, in the order they are generated
RECURSIVE SubCells(_, _, _, _, _)
SubCells(m, cellFaces, cellId, j, centroid) ==
  IF j >= Len(cellFaces) THEN <<>>
  ELSE FaceSubCells(GetCell(m.meshFaces, cellFaces[j + 1]),
                    FlipNeighbor(m, cellFaces[j + 1], cellId),
                    FirstVertI(m, GetCell(m.meshFaces, cellFaces[j + 1])), centroid, cellId)
         \o SubCells(m, cellFaces, cellId, j + 1, centroid)

\* Decomposition: "remove duplicate points from faces" (polyCellPoints)
RECURSIVE DistinctPoints(_, _, _)
DistinctPoints(pts, k, found) ==
  IF k > Len(pts) THEN found
  ELSE DistinctPoints(pts, k + 1, IF pts[k] \in Range(found) THEN found ELSE Append(found, pts[k]))
RECURSIVE PolyCellPoints(_, _, _, _)
PolyCellPoints(m, cellFaces, j, found) ==
  IF j >= Len(cellFaces) THEN found
  ELSE PolyCellPoints(m, cellFaces, j + 1,
                      DistinctPoints(GetCell(m.meshFaces, cellFaces[j + 1]), 1, found))

\* Decomposition: "if the decomposed cell is the first one insert it to the
\* original position; or append to the decomposed cell list otherwise"
FirstSubCellMutant(subCells) == subCells
FirstSubCell(subCells) == SubSeq(subCells, 1, 1)
OtherSubCells(subCells) == SubSeq(subCells, 2, Len(subCells))

\* Decomposition: the tuple of additionalCells for a cell; "set the 5th
\* vertex number to -1 to distinguish a tetra cell"
AdditionalTuple(cell) == IF cell.type = "VTK_TETRA" THEN Append(cell.pts, -1) ELSE cell.pts
AdditionalTuples(cells) == [i \in 1..Len(cells) |-> AdditionalTuple(cells[i])]

Decomposed(subCells, polyCellPoints) ==
  [cells |-> FirstSubCell(subCells), additional |-> AdditionalTuples(OtherSubCells(subCells)),
   decomposed |-> TRUE, polyCellPoints |-> polyCellPoints, exit |-> "continue"]

DecomposePolyhedron(m, cellFaces, cellId, centroid) ==
  Decomposed(SubCells(m, cellFaces, cellId, 0, centroid), PolyCellPoints(m, cellFaces, 0, <<>>))

\* InsertCellsToGrid: if (cellType == VTK_POLYHEDRON)
InsertAsPolyhedron(m, cellFaces, cellId, decompose, centroid) ==
  IF decompose THEN DecomposePolyhedron(m, cellFaces, cellId, centroid)
  ELSE InsertPolyhedron(m, cellFaces, cellId)

\* InsertCellsToGrid: the cell shape constructors
InsertOfType(m, cellFaces, sizes, cellType, cellId, decompose, centroid) ==
  IF cellType = "VTK_HEXAHEDRON"
  THEN Inserted(Cell(cellType, 8, HexPoints(m, cellFaces, cellId), cellId))
  ELSE IF cellType = "VTK_WEDGE"
  THEN IF WedgePivotFound(m, cellFaces, sizes, cellId)
       THEN Inserted(Cell(cellType, 6, <<>>, cellId))
       ELSE InsertAsPolyhedron(m, cellFaces, cellId, decompose, centroid)
  ELSE IF cellType = "VTK_PYRAMID" THEN Inserted(Cell(cellType, 5, <<>>, cellId))
  ELSE IF cellType = "VTK_TETRA" THEN Inserted(Cell(cellType, 4, <<>>, cellId))
  ELSE IF cellType = "VTK_EMPTY_CELL" THEN Inserted(EmptyCell(cellId))
  ELSE InsertAsPolyhedron(m, cellFaces, cellId, decompose, centroid)

InsertCellFaces(m, cellFaces, sizes, cellId, decompose, centroid) ==
  InsertOfType(m, cellFaces, sizes, CellTypeOf(sizes), cellId, decompose, centroid)

\* InsertCellsToGrid: one turn of the loop, for a cell the mesh has
InsertCell(m, cellId, decompose, centroid) ==
  InsertCellFaces(m, GetCell(m.meshCells, cellId),
                  FaceSizesOf(m.meshFaces, GetCell(m.meshCells, cellId)),
                  cellId, decompose, centroid)

\* InsertCellsToGrid: the cells of one turn go into the grid in order
RECURSIVE InsertCells(_, _)
InsertCells(grid, cells) ==
  IF cells = <<>> THEN grid ELSE InsertCells(InsertNextCell(grid, Head(cells)), Tail(cells))

\* MakeInternalMesh: "insert decomposed cells into mesh"
AdditionalCell(tuple) ==
  IF tuple[5] = -1 THEN Cell("VTK_TETRA", 4, SubSeq(tuple, 1, 4), -1)
  ELSE Cell("VTK_PYRAMID", 5, tuple, -1)
RECURSIVE InsertAdditionalCells(_, _, _)
InsertAdditionalCells(grid, tuples, i) ==
  IF i >= Len(tuples) THEN grid
  ELSE InsertAdditionalCells(InsertNextCell(grid, AdditionalCell(tuples[i + 1])), tuples, i + 1)

\* No mesh read yet; a cellList that is nullptr, and one that is the labels
\* of a cell zone
NoMesh ==
  [meshFaces |-> NoList, FaceOwner |-> <<>>, NumCells |-> 0, meshCells |-> NoList,
   NumPoints |-> 0, flat |-> FALSE]
NullList == [nullptr |-> TRUE, tuples |-> <<>>]
LabelList(labels) == [nullptr |-> FALSE, tuples |-> labels]

\* The meshes whose zones the model reads, and the labels a zone of them
\* may hold: any label from -1 up, no more labels than maxLabels
ZoneMeshFiles ==
  {MeshFilesOf(<<NoFaceCell, PentagonCell>>), MeshFilesOf(<<TetraCell, NonagonCell>>),
   MeshFilesOf(<<PyramidCell>>), SharedFaceMesh}
ZoneLabels(maxLabels) ==
  {labels \in SeqsUpTo((-1)..maxLabels, MaxLabels) : labels # <<>> /\ Len(labels) <= maxLabels}

\* What a read outside the cell or face list can bring back: the cell or
\* face it is taken to be
GarbageCells(cellId) ==
  {EmptyCell(cellId), Cell("VTK_TETRA", 4, <<>>, cellId), Cell("VTK_HEXAHEDRON", 8, <<>>, cellId)}
GarbageSizes == {0, 3, 5}

----------------------------------------------------------------------------
(* vtkOpenFOAMReaderPrivate::FillField                                      *)

\* Bounds
MaxPatchFaces == 2
MaxFieldPatches == 2
MaxFieldEntries == 2

\* vtkFoamTypes::dataType
SCALAR_TYPE == 1
VECTOR_TYPE == 3
SYMM_TENSOR_TYPE == 6

GetNumberOfComponents(dtype) == dtype % 16

IsScalar(dtype) == dtype = SCALAR_TYPE

IsVectorSpace(dtype) == GetNumberOfComponents(dtype) > 1 \/ dtype = 33

\* std::swap(tuple[1], tuple[3]); std::swap(tuple[2], tuple[5]) on the tuple
\* that starts after `base` values of the array
SwapTuple(list, base) ==
  [i \in 1 .. Len(list) |->
     IF i = base + 2 THEN list[base + 4]
     ELSE IF i = base + 4 THEN list[base + 2]
     ELSE IF i = base + 3 THEN list[base + 6]
     ELSE IF i = base + 6 THEN list[base + 3]
     ELSE list[i]]

\* the loop over tuplei of the nonuniform branch
RECURSIVE SwapTuples(_, _, _)
SwapTuples(list, tuplei, nTuples) ==
  IF tuplei < nTuples THEN SwapTuples(SwapTuple(list, 6 * tuplei), tuplei + 1, nTuples) ELSE list

\* data->SetTuple(i, tuple) for i < nElements
RECURSIVE FillTuples(_, _)
FillTuples(tuple, nElements) ==
  IF nElements <= 0 THEN <<>> ELSE tuple \o FillTuples(tuple, nElements - 1)

NullData == [null |-> TRUE, nComponents |-> 0, values |-> <<>>, shared |-> FALSE]

FloatArray(nComponents, values, shared) ==
  [null |-> FALSE, nComponents |-> nComponents, values |-> values, shared |-> shared]

\* what FillField returns and the entry it leaves
FieldFilled(data, entry) == [data |-> data, entry |-> entry]

FillUniformTuple(entry, nElements, fieldDataType, tuple, inPlace) ==
  IF GetNumberOfComponents(fieldDataType) = Len(tuple) /\ IsVectorSpace(fieldDataType)
  THEN IF Len(tuple) = 6
       THEN FieldFilled(FloatArray(6, FillTuples(SwapTuple(tuple, 0), nElements), FALSE),
                   IF inPlace THEN [entry EXCEPT !.list = SwapTuple(tuple, 0)] ELSE entry)
       ELSE FieldFilled(FloatArray(Len(tuple), FillTuples(tuple, nElements), FALSE), entry)
  ELSE FieldFilled(NullData, entry)

FillUniform(entry, nElements, fieldDataType) ==
  IF entry.type \in {"SCALAR", "LABEL"}
  THEN FieldFilled(FloatArray(1, FillTuples(entry.list, nElements), FALSE), entry)
  ELSE IF entry.type = "LABELLIST"
  THEN FillUniformTuple(entry, nElements, fieldDataType, entry.list, FALSE)
  ELSE IF entry.type = "SCALARLIST"
  THEN FillUniformTuple(entry, nElements, fieldDataType, entry.list, TRUE)
  ELSE FieldFilled(NullData, entry)

\* data = entry.Ptr(): the array of the entry itself, no longer managed
FillReleased(entry, list) ==
  FieldFilled(FloatArray(entry.nComponents, list, TRUE),
         [entry EXCEPT !.list = list, !.Managed = FALSE])

FillNonuniform(entry, nElements, fieldDataType) ==
  IF (entry.type = "SCALARLIST" /\ IsScalar(fieldDataType))
     \/ (entry.type = "VECTORLIST" /\ IsVectorSpace(fieldDataType))
  THEN IF Len(entry.list) \div entry.nComponents # nElements
       THEN FieldFilled(NullData, entry)
       ELSE IF entry.nComponents = 6
       THEN FillReleased(entry, SwapTuples(entry.list, 0, nElements))
       ELSE FillReleased(entry, entry.list)
  ELSE IF entry.type = "EMPTYLIST" /\ nElements <= 0
  THEN FieldFilled(FloatArray(GetNumberOfComponents(fieldDataType), <<>>, FALSE), entry)
  ELSE FieldFilled(NullData, entry)

FillField(entry, nElements, fieldDataType) ==
  IF entry.uniform THEN FillUniform(entry, nElements, fieldDataType)
  ELSE FillNonuniform(entry, nElements, fieldDataType)

\* A vtkFoamEntryValue that is a number or a list
FoamValue(uniform, type, nComponents, list) ==
  [uniform |-> uniform, type |-> type, nComponents |-> nComponents, list |-> list,
   Managed |-> TRUE]

----------------------------------------------------------------------------
(* InsertCellsToGrid and its callers: the actions                           *)

InsInit ==
  /\ insMesh = NoMesh
  /\ DecomposePolyhedra = FALSE
  /\ cellList = NullList
  /\ internalMesh = <<>>
  /\ arrayId = <<>>
  /\ additionalCells = <<>>
  /\ pointArray = 0
  /\ nAdditionalPoints = 0
  /\ AdditionalCellIds = <<>>
  /\ NumAdditionalCells = <<>>
  /\ AdditionalCellPoints = <<>>
  /\ NumTotalAdditionalCells = 0
  /\ cellI = 0
  /\ insState = "idle"

\* InsertCellsToGrid: nCells
nCellsOf(m, list) == IF list.nullptr THEN m.NumCells ELSE Len(list.tuples)

\* RequestData reads the points and checks the faces; MakeInternalMesh
\* creates the grid and calls InsertCellsToGrid, which is then at the head
\* of its loop
BeginInternalMesh(m, decompose) ==
  /\ insMesh' = m
  /\ DecomposePolyhedra' = decompose
  /\ cellList' = NullList
  /\ internalMesh' = <<>>
  /\ arrayId' = <<>>
  /\ additionalCells' = <<>>
  /\ pointArray' = m.NumPoints
  /\ nAdditionalPoints' = 0
  /\ AdditionalCellIds' = <<>>
  /\ NumAdditionalCells' = <<>>
  /\ AdditionalCellPoints' = <<>>
  /\ NumTotalAdditionalCells' = 0
  /\ cellI' = 0
  /\ insState' = IF CheckFaceList(m.meshFaces, m.NumPoints) THEN "cells" ELSE "failed"

MakeInternalMesh ==
  /\ insState = "idle"
  /\ faceState = "idle"
  /\ \E files \in MeshFiles \cup BadMeshFiles, flat \in BOOLEAN, decompose \in BOOLEAN :
       BeginInternalMesh(MeshOf(files, flat), decompose)
  /\ UNCHANGED <<notIns, faceVars, volVars>>

\* GetCellZoneMesh calls InsertCellsToGrid with the labels of a zone: the
\* CellId array is created with nCells tuples nothing has written
BeginCellZone(m, labels) ==
  /\ insMesh' = m
  /\ DecomposePolyhedra' = FALSE
  /\ cellList' = LabelList(labels)
  /\ internalMesh' = <<>>
  /\ arrayId' = [i \in 1..Len(labels) |-> Unwritten]
  /\ additionalCells' = <<>>
  /\ pointArray' = m.NumPoints
  /\ nAdditionalPoints' = 0
  /\ AdditionalCellIds' = <<>>
  /\ NumAdditionalCells' = <<>>
  /\ AdditionalCellPoints' = <<>>
  /\ NumTotalAdditionalCells' = 0
  /\ cellI' = 0
  /\ insState' = "cells"

ZoneOf(m) == {<<m, labels>> : labels \in ZoneLabels(m.NumCells)}

GetCellZoneMesh ==
  /\ insState = "idle"
  /\ faceState = "idle"
  /\ \E files \in ZoneMeshFiles : \E zone \in ZoneOf(MeshOf(files, FALSE)) :
       BeginCellZone(zone[1], zone[2])
  /\ UNCHANGED <<notIns, faceVars, volVars>>

\* InsertCellsToGrid, one turn of the loop: the label is past the cells
InsertEmptyCell(cellId) ==
  /\ internalMesh' = InsertNextCell(internalMesh, EmptyCell(cellId))
  /\ cellI' = cellI + 1
  /\ UNCHANGED <<insMesh, DecomposePolyhedra, cellList, arrayId, additionalCells, pointArray,
                 nAdditionalPoints, AdditionalCellIds, NumAdditionalCells,
                 AdditionalCellPoints, NumTotalAdditionalCells, insState>>

\* InsertCellsToGrid, one turn of the loop: meshCells.GetCell(cellId, ...)
\* for a label below 0 reads before the offsets of meshCells, and the copy of
\* the opposite face of a hexahedron can read past the face
InsertOutOfBounds(cellId, crash, garbage) ==
  /\ arrayId' = [arrayId EXCEPT ![cellI + 1] = cellId]
  /\ internalMesh' = IF crash THEN internalMesh ELSE InsertNextCell(internalMesh, garbage)
  /\ cellI' = IF crash THEN cellI ELSE cellI + 1
  /\ insState' = IF crash THEN "undefined" ELSE insState
  /\ UNCHANGED <<insMesh, DecomposePolyhedra, cellList, additionalCells, pointArray,
                 nAdditionalPoints, AdditionalCellIds, NumAdditionalCells,
                 AdditionalCellPoints, NumTotalAdditionalCells>>

\* InsertCellsToGrid, one turn of the loop for a cell of the mesh, r being
\* what the turn did
InsertTurn(cellId, r) ==
  /\ arrayId' = IF cellList.nullptr THEN arrayId ELSE [arrayId EXCEPT ![cellI + 1] = cellId]
  /\ internalMesh' = InsertCells(internalMesh, r.cells)
  /\ additionalCells' = additionalCells \o r.additional
  /\ pointArray' = IF r.decomposed THEN pointArray + 1 ELSE pointArray
  /\ nAdditionalPoints' = IF r.decomposed THEN nAdditionalPoints + 1 ELSE nAdditionalPoints
  /\ AdditionalCellIds' =
       IF r.decomposed THEN Append(AdditionalCellIds, cellId) ELSE AdditionalCellIds
  /\ NumAdditionalCells' =
       IF r.decomposed THEN Append(NumAdditionalCells, Len(r.additional))
       ELSE NumAdditionalCells
  /\ AdditionalCellPoints' =
       IF r.decomposed THEN Append(AdditionalCellPoints, r.polyCellPoints)
       ELSE AdditionalCellPoints
  /\ NumTotalAdditionalCells' = NumTotalAdditionalCells + Len(r.additional)
  /\ cellI' = IF r.exit = "return" THEN cellI ELSE cellI + 1
  /\ insState' = IF r.exit = "return" THEN "returned" ELSE insState
  /\ UNCHANGED <<insMesh, DecomposePolyhedra, cellList>>

InsertCellOf(cellId) ==
  IF ~cellList.nullptr /\ cellId >= insMesh.NumCells THEN InsertEmptyCell(cellId)
  ELSE IF cellId < 0 \/ ReadsOutOfBounds(insMesh, cellId)
  THEN \E crash \in BOOLEAN, garbage \in GarbageCells(cellId) :
         InsertOutOfBounds(cellId, crash, garbage)
  ELSE \E r \in {InsertCell(insMesh, cellId, DecomposePolyhedra,
                            insMesh.NumPoints + nAdditionalPoints)} :
         InsertTurn(cellId, r)

InsertCellsToGrid ==
  /\ insState = "cells"
  /\ cellI < nCellsOf(insMesh, cellList)
  /\ InsertCellOf(IF cellList.nullptr THEN cellI ELSE GetLabelValue(cellList.tuples, cellI))
  /\ UNCHANGED <<notIns, faceVars, volVars>>

\* InsertCellsToGrid has returned, at the end of its loop or for a
\* polyhedron too large: MakeInternalMesh inserts the decomposed cells and
\* returns the grid, GetCellZoneMesh sets the grid as the block of the zone
InsertCellsToGridReturned ==
  /\ \/ insState = "cells" /\ cellI = nCellsOf(insMesh, cellList)
     \/ insState = "returned"
  /\ internalMesh' =
       IF DecomposePolyhedra THEN InsertAdditionalCells(internalMesh, additionalCells, 0)
       ELSE internalMesh
  /\ insState' = "made"
  /\ UNCHANGED <<insMesh, DecomposePolyhedra, cellList, arrayId, additionalCells, pointArray,
                 nAdditionalPoints, AdditionalCellIds, NumAdditionalCells,
                 AdditionalCellPoints, NumTotalAdditionalCells, cellI>>
  /\ UNCHANGED <<notIns, faceVars, volVars>>

\* The reader is updated anew
InsClear ==
  /\ insState \in {"made", "failed", "undefined"}
  /\ insMesh' = NoMesh
  /\ DecomposePolyhedra' = FALSE
  /\ cellList' = NullList
  /\ internalMesh' = <<>>
  /\ arrayId' = <<>>
  /\ additionalCells' = <<>>
  /\ pointArray' = 0
  /\ nAdditionalPoints' = 0
  /\ AdditionalCellIds' = <<>>
  /\ NumAdditionalCells' = <<>>
  /\ AdditionalCellPoints' = <<>>
  /\ NumTotalAdditionalCells' = 0
  /\ cellI' = 0
  /\ insState' = "idle"
  /\ cellData' = NullData
  /\ UNCHANGED <<notIns, faceVars>>

\* The meshes whose faces the model makes boundary and face zone meshes of
FaceMeshFiles == {MeshFilesOf(<<PyramidCell>>), MeshFilesOf(<<PentagonCell>>)}

\* vtkSortDataArray::Sort
RECURSIVE Sorted(_)
Sorted(S) ==
  IF S = {} THEN <<>>
  ELSE <<CHOOSE x \in S : \A y \in S : x <= y>>
         \o Sorted(S \ {CHOOSE x \in S : \A y \in S : x <= y})

\* MakeBoundaryMesh: the points of the faces of a patch
RECURSIVE BoundaryPointsOf(_, _, _)
BoundaryPointsOf(lll, facei, end) ==
  IF facei >= end THEN {}
  ELSE Range(GetCell(lll, facei)) \cup BoundaryPointsOf(lll, facei + 1, end)

\* MakeBoundaryMesh: bpMap, the "global to boundary-local point map": the
\* sorted points of the patch, each once
BoundaryPointMap(lll, start, end) == Sorted(BoundaryPointsOf(lll, start, end))

\* this->InternalPoints of the model: the points in the order they were
\* met, the last point of the mesh first
InternalPoints(nPoints) == [i \in 1..nPoints |-> nPoints - i]

\* vtkAbstractArray::LookupValue
LookupValue(array, value) ==
  IF value \in Range(array) THEN (CHOOSE i \in 1..Len(array) : array[i] = value) - 1 ELSE -1

\* InsertFacesToGrid: the id a point of a face gets
FacePointId(pointId, boundaryPointMap, isLookupValue) ==
  IF isLookupValue THEN LookupValue(boundaryPointMap.tuples, pointId)
  ELSE IF ~boundaryPointMap.nullptr THEN GetLabelValue(boundaryPointMap.tuples, pointId)
  ELSE pointId

FacePointsVtkId(lll, faceId, boundaryPointMap, isLookupValue) ==
  [fp \in 1..GetSize(lll, faceId) |->
     FacePointId(GetValue(lll, faceId, fp - 1), boundaryPointMap, isLookupValue)]

\* InsertFacesToGrid: "Triangle", "Quad", "Polygon"
FaceType(nFacePoints) ==
  IF nFacePoints = 3 THEN "VTK_TRIANGLE"
  ELSE IF nFacePoints = 4 THEN "VTK_QUAD"
  ELSE "VTK_POLYGON"

\* InsertFacesToGrid: the cell of one turn of the loop; meshFaces.GetSize
\* for a label below 0 reads before the offsets of meshFaces, `garbage`
\* being what it brings back
FaceCell(m, faceId, boundaryPointMap, hasLabels, isLookupValue, garbage) ==
  IF hasLabels /\ faceId >= Len(m.FaceOwner) THEN EmptyCell(faceId)
  ELSE IF faceId < 0 THEN Cell(FaceType(garbage), garbage, <<>>, faceId)
  ELSE Cell(FaceType(GetSize(m.meshFaces, faceId)), GetSize(m.meshFaces, faceId),
            FacePointsVtkId(m.meshFaces, faceId, boundaryPointMap, isLookupValue), faceId)

\* InsertFacesToGrid(boundaryMesh, meshFaces, startFace, endFace,
\* boundaryPointMap, facePointsVtkId, labels, isLookupValue)
RECURSIVE InsertFacesToGrid(_, _, _, _, _, _, _, _)
InsertFacesToGrid(bm, m, j, end, boundaryPointMap, labels, isLookupValue, garbage) ==
  IF j >= end THEN bm
  ELSE InsertFacesToGrid(
         InsertNextCell(bm, FaceCell(m, IF labels.nullptr THEN j
                                        ELSE GetLabelValue(labels.tuples, j),
                                     boundaryPointMap, ~labels.nullptr, isLookupValue,
                                     garbage)),
         m, j + 1, end, boundaryPointMap, labels, isLookupValue, garbage)

\* The arguments of a call of InsertFacesToGrid
FaceArgs(caller, m, start, end, boundaryPointMap, labels, isLookupValue) ==
  [caller |-> caller, mesh |-> m, startFace |-> start, endFace |-> end,
   boundaryPointMap |-> boundaryPointMap, labels |-> labels, isLookupValue |-> isLookupValue]
NoFaceArgs == FaceArgs("none", NoMesh, 0, 0, NullList, NullList, FALSE)

FaceInit ==
  /\ faceArgs = NoFaceArgs
  /\ boundaryMesh = <<>>
  /\ faceState = "idle"

\* MakeBoundaryMesh, "Add faces to AllBoundaries": the faces of a patch,
\* their points mapped by InternalPoints
AddFacesToAllBoundaries(m, start, end) ==
  /\ faceArgs' = FaceArgs("AllBoundaries", m, start, end,
                          LabelList(InternalPoints(m.NumPoints)), NullList, FALSE)
  /\ boundaryMesh' = InsertFacesToGrid(<<>>, m, start, end,
                                       LabelList(InternalPoints(m.NumPoints)), NullList,
                                       FALSE, 0)
  /\ faceState' = "inserted"

\* MakeBoundaryMesh, "insert faces to boundary mesh": the faces of a patch,
\* their points looked up in bpMap
InsertFacesToBoundaryMesh(m, start, end) ==
  /\ faceArgs' = FaceArgs("Boundary", m, start, end,
                          LabelList(BoundaryPointMap(m.meshFaces, start, end)), NullList, TRUE)
  /\ boundaryMesh' = InsertFacesToGrid(<<>>, m, start, end,
                                       LabelList(BoundaryPointMap(m.meshFaces, start, end)),
                                       NullList, TRUE, 0)
  /\ faceState' = "inserted"

PatchesOf(m) ==
  {<<m, start, end>> : start \in 0..Len(m.FaceOwner), end \in 0..Len(m.FaceOwner)}

MakeBoundaryMesh ==
  /\ faceState = "idle"
  /\ insState = "idle"
  /\ \E files \in FaceMeshFiles : \E patch \in PatchesOf(MeshOf(files, FALSE)) :
       /\ patch[2] <= patch[3]
       /\ \E allBoundaries \in BOOLEAN :
            IF allBoundaries THEN AddFacesToAllBoundaries(patch[1], patch[2], patch[3])
            ELSE InsertFacesToBoundaryMesh(patch[1], patch[2], patch[3])
  /\ UNCHANGED <<notIns, insVars, volVars>>

\* GetFaceZoneMesh: the loop over the labels for maxNFacePoints calls
\* meshFaces.GetSize for every label, a read outside the offsets of
\* meshFaces for a label that is no face; then the faces are inserted
HasNoFace(m, labels) == \E i \in 1..Len(labels) : labels[i] < 0 \/ labels[i] >= Len(m.FaceOwner)

InsertZoneFaces(m, labels, crash, garbage) ==
  /\ faceArgs' = FaceArgs("FaceZone", m, 0, Len(labels), NullList, LabelList(labels), FALSE)
  /\ boundaryMesh' =
       IF crash THEN <<>>
       ELSE InsertFacesToGrid(<<>>, m, 0, Len(labels), NullList, LabelList(labels), FALSE,
                              garbage)
  /\ faceState' = IF crash THEN "undefined" ELSE "inserted"

FaceZoneOf(m) == {<<m, labels>> : labels \in ZoneLabels(Len(m.FaceOwner))}

GetFaceZoneMesh ==
  /\ faceState = "idle"
  /\ insState = "idle"
  /\ \E files \in FaceMeshFiles : \E zone \in FaceZoneOf(MeshOf(files, FALSE)) :
       \E crash \in BOOLEAN, garbage \in GarbageSizes :
         /\ crash => HasNoFace(zone[1], zone[2])
         /\ InsertZoneFaces(zone[1], zone[2], crash, garbage)
  /\ UNCHANGED <<notIns, insVars, volVars>>

\* GetPointZoneMesh, "Insert points": a vertex for every label below
\* NumPoints, an empty cell for the others
PointCell(pointLabel, maxLabels) ==
  IF pointLabel < maxLabels THEN Cell("VTK_VERTEX", 1, <<pointLabel>>, pointLabel)
  ELSE EmptyCell(pointLabel)

RECURSIVE InsertPoints(_, _, _, _)
InsertPoints(zm, labels, labeli, maxLabels) ==
  IF labeli >= Len(labels) THEN zm
  ELSE InsertPoints(InsertNextCell(zm, PointCell(GetLabelValue(labels, labeli), maxLabels)),
                    labels, labeli + 1, maxLabels)

PointZoneOf(m) == {<<m, labels>> : labels \in ZoneLabels(m.NumPoints)}

GetPointZoneMesh ==
  /\ faceState = "idle"
  /\ insState = "idle"
  /\ \E files \in FaceMeshFiles : \E zone \in PointZoneOf(MeshOf(files, FALSE)) :
       /\ faceArgs' = FaceArgs("PointZone", zone[1], 0, Len(zone[2]), NullList,
                               LabelList(zone[2]), FALSE)
       /\ boundaryMesh' = InsertPoints(<<>>, zone[2], 0, zone[1].NumPoints)
  /\ faceState' = "inserted"
  /\ UNCHANGED <<notIns, insVars, volVars>>

FaceClear ==
  /\ faceState \in {"inserted", "undefined"}
  /\ faceArgs' = NoFaceArgs
  /\ boundaryMesh' = <<>>
  /\ faceState' = "idle"
  /\ UNCHANGED <<notIns, insVars, volVars>>

\* vtkFloatArray: the tuples of an array, and tuple i of it, 0-based
NumberOfTuples(array) == Len(array.values) \div array.nComponents

TupleAt(array, i) ==
  SubSeq(array.values, array.nComponents * i + 1, array.nComponents * (i + 1))

\* ExtendArray: a block of nTuples tuples that nothing has written, the
\* values of the array moved to its head
UnwrittenValues(n) == [k \in 1 .. n |-> Unwritten]

ExtendArray(array, nTuples) ==
  [array EXCEPT !.values =
     array.values \o UnwrittenValues(nTuples * array.nComponents - Len(array.values))]

\* vtkDataArray::InsertTuple(i, j, source) with the array as its own
\* source: tuple i becomes tuple j, the array growing up to tuple i
InsertTuple(array, i, j) ==
  [array EXCEPT !.values =
     IF i < NumberOfTuples(array)
     THEN SubSeq(array.values, 1, array.nComponents * i) \o TupleAt(array, j)
            \o SubSeq(array.values, array.nComponents * (i + 1) + 1, Len(array.values))
     ELSE array.values \o UnwrittenValues(array.nComponents * (i - NumberOfTuples(array)))
            \o TupleAt(array, j)]

\* GetVolFieldAtTimeStep, "add values for decomposed cells": the cell the
\* tuples of the tupleI-th decomposed polyhedron are copied from
AdditionalSourceMutant(tupleI) == 0
AdditionalSource(tupleI) == AdditionalCellIds[tupleI + 1]

\* for (int cellI = 0; cellI < nCells; cellI++)
RECURSIVE AddCellValues(_, _, _, _)
AddCellValues(iData, additionalCellI, cellId, nCells) ==
  IF nCells <= 0 THEN iData
  ELSE AddCellValues(InsertTuple(iData, additionalCellI, cellId), additionalCellI + 1, cellId,
                     nCells - 1)

\* for (vtkIdType tupleI = 0; tupleI < nTuples; tupleI++)
RECURSIVE AddDecomposedValues(_, _, _)
AddDecomposedValues(iData, tupleI, additionalCellI) ==
  IF tupleI >= Len(AdditionalCellIds) THEN iData
  ELSE AddDecomposedValues(
         AddCellValues(iData, additionalCellI, AdditionalSource(tupleI),
                       NumAdditionalCells[tupleI + 1]),
         tupleI + 1, additionalCellI + NumAdditionalCells[tupleI + 1])

\* the array set to the cell data of internalMesh
InternalFieldOf(iData) ==
  IF DecomposePolyhedra
  THEN AddDecomposedValues(ExtendArray(iData, insMesh.NumCells + NumTotalAdditionalCells), 0,
                           insMesh.NumCells)
  ELSE iData

\* The internalField entries of the field files: a uniform scalar, a
\* uniform vector, a list of one scalar or one vector per cell, a list one
\* too long, an empty list
RECURSIVE CellValues(_, _)
CellValues(n, nComponents) ==
  IF n = 0 THEN <<>>
  ELSE CellValues(n - 1, nComponents) \o [c \in 1 .. nComponents |-> 10 * n + c]

InternalFields(NumberOfCells) ==
  {[type |-> SCALAR_TYPE, entry |-> FoamValue(TRUE, "SCALAR", 1, <<7>>)],
   [type |-> VECTOR_TYPE, entry |-> FoamValue(TRUE, "SCALARLIST", 1, <<1, 2, 3>>)],
   [type |-> SCALAR_TYPE,
    entry |-> FoamValue(FALSE, "SCALARLIST", 1, CellValues(NumberOfCells, 1))],
   [type |-> VECTOR_TYPE,
    entry |-> FoamValue(FALSE, "VECTORLIST", 3, CellValues(NumberOfCells, 3))],
   [type |-> SCALAR_TYPE,
    entry |-> FoamValue(FALSE, "SCALARLIST", 1, CellValues(NumberOfCells + 1, 1))],
   [type |-> SCALAR_TYPE, entry |-> FoamValue(FALSE, "EMPTYLIST", 1, <<>>)]}

VolInit == cellData = NullData

InternalFieldFilled(iData) ==
  IF iData.null \/ Len(iData.values) <= 0 THEN cellData' = NullData
  ELSE cellData' = InternalFieldOf(iData)

\* GetVolFieldAtTimeStep up to "Set data to internal mesh", for the
\* internal mesh MakeInternalMesh returned
GetVolFieldAtTimeStep ==
  /\ insState = "made"
  /\ cellList.nullptr
  /\ cellData.null
  /\ \E f \in InternalFields(insMesh.NumCells) :
       IF f.entry.type = "EMPTYLIST" THEN cellData' = NullData
       ELSE InternalFieldFilled(FillField(f.entry, insMesh.NumCells, f.type).data)
  /\ UNCHANGED <<notIns, insVars, faceVars>>

InsNext ==
  \/ MakeInternalMesh
  \/ GetCellZoneMesh
  \/ InsertCellsToGrid
  \/ InsertCellsToGridReturned
  \/ InsClear
  \/ MakeBoundaryMesh
  \/ GetFaceZoneMesh
  \/ GetPointZoneMesh
  \/ FaceClear
  \/ GetVolFieldAtTimeStep

----------------------------------------------------------------------------
(* vtkOpenFOAMReader::RequestData: the cached meshes and when they are rebuilt *)

MaxSets == 1

MaxRequests == 3

MaxTimeStep == 1

\* TimeStepOld before anything was loaded
NoTimeStep == -1

\* The time directory that holds polyMesh/faces of a time step: the mesh of
\* the case changes once, at the last time step
PolyMeshFacesDir(t) == IF t < MaxTimeStep THEN 0 ELSE MaxTimeStep

\* patches.timeName_ before polyMesh/boundary was read
NoTimeName == -1

\* A cached object is nullptr or was built from the files of one time
\* directory with one label width
NullMesh == [nullptr |-> TRUE, dir |-> NoTimeName, labels64 |-> FALSE, decomposed |-> FALSE]

BuiltMesh(r) ==
  [nullptr |-> FALSE, dir |-> PolyMeshFacesDir(r.TimeStep), labels64 |-> r.Use64BitLabels,
   decomposed |-> r.DecomposePolyhedra]

\* vtkOpenFOAMReader::vtkOpenFOAMReader and vtkOpenFOAMReaderPrivate's constructor
RdConstructed ==
  [Use64BitLabels |-> FALSE, Use64BitLabelsOld |-> FALSE,
   Use64BitFloats |-> TRUE, Use64BitFloatsOld |-> TRUE,
   CacheMesh |-> TRUE,
   SkipZeroTime |-> FALSE, SkipZeroTimeOld |-> FALSE,
   ListTimeStepsByControlDict |-> FALSE, ListTimeStepsByControlDictOld |-> FALSE,
   DecomposePolyhedra |-> FALSE, DecomposePolyhedraOld |-> FALSE,
   ReadZones |-> FALSE, ReadZonesOld |-> FALSE,
   CreateCellToPoint |-> TRUE, CreateCellToPointOld |-> TRUE,
   PatchSelectionMTime |-> 0, PatchSelectionMTimeOld |-> 0,
   internalMeshExists |-> FALSE, internalMeshStatus |-> FALSE,
   InternalMeshSelectionStatus |-> FALSE, InternalMeshSelectionStatusOld |-> FALSE,
   timeName_ |-> NoTimeName,
   TimeStep |-> 0, TimeStepOld |-> NoTimeStep,
   FaceOwner |-> NullMesh, InternalMesh |-> NullMesh, BoundaryMesh |-> NullMesh]

NothingDone ==
  [recreateInternalMesh |-> FALSE, recreateBoundaryMesh |-> FALSE, readFaces |-> FALSE,
   readOwner |-> FALSE, called |-> FALSE, ret |-> 1]

RdInit ==
  /\ rd = RdConstructed
  /\ rdLast = NothingDone
  /\ rdCalls = 0
  /\ rdSets = 0

StorageOptions == {"Use64BitLabels", "Use64BitFloats"}

MeshOptions ==
  {"CacheMesh", "SkipZeroTime", "ListTimeStepsByControlDict", "DecomposePolyhedra", "ReadZones",
   "CreateCellToPoint"}

\* The setters of vtkOpenFOAMReader: a call with the value the option has changes nothing
SetOption(name, val) ==
  /\ rdSets < MaxSets
  /\ rd[name] # val
  /\ rd' = [rd EXCEPT ![name] = val]
  /\ rdSets' = rdSets + 1
  /\ UNCHANGED <<rdLast, rdCalls>>

SetUse64Bit == \E name \in StorageOptions, val \in BOOLEAN : SetOption(name, val) /\ UNCHANGED notRd

SetMeshOption == \E name \in MeshOptions, val \in BOOLEAN : SetOption(name, val) /\ UNCHANGED notRd

\* vtkOpenFOAMReader::SetPatchArrayStatus: of the internal mesh or of a patch
SetPatchArrayStatus ==
  /\ rdSets < MaxSets
  /\ \E internal \in BOOLEAN, status \in BOOLEAN :
       rd' = [rd EXCEPT !.PatchSelectionMTime = @ + 1,
                        !.internalMeshStatus =
                          IF internal /\ rd.internalMeshExists THEN status ELSE @]
  /\ rdSets' = rdSets + 1
  /\ UNCHANGED <<rdLast, rdCalls>>
  /\ UNCHANGED notRd

\* vtkOpenFOAMReaderPrivate::SetTimeValue: the time step nearest to the requested time
SetTimeValue(r, requested) == [r EXCEPT !.TimeStep = requested]

\* vtkOpenFOAMReaderPrivate::MakeMetaDataAtTimeStep: the patches and the
\* status of the internal mesh
MetaTopoChanged(r) == r.timeName_ = NoTimeName \/ PolyMeshFacesDir(r.TimeStep) # r.timeName_

SelectChanged(r) == MetaTopoChanged(r) \/ r.PatchSelectionMTime # r.PatchSelectionMTimeOld

MetaFails(r, files) == MetaTopoChanged(r) /\ files = "noBoundary"

AddInternalSelection(r) ==
  IF r.internalMeshExists THEN r
  ELSE [r EXCEPT !.internalMeshExists = TRUE, !.internalMeshStatus = TRUE,
                 !.PatchSelectionMTime = @ + 1]

SelectionStatus(r) ==
  [r EXCEPT !.InternalMeshSelectionStatus = r.internalMeshExists /\ r.internalMeshStatus]

MakeMetaDataAtTimeStep(r, files) ==
  IF MetaFails(r, files) THEN [r EXCEPT !.timeName_ = PolyMeshFacesDir(r.TimeStep)]
  ELSE IF MetaTopoChanged(r)
    THEN SelectionStatus(AddInternalSelection([r EXCEPT !.timeName_ = PolyMeshFacesDir(r.TimeStep)]))
  ELSE IF SelectChanged(r) THEN SelectionStatus(r)
  ELSE r

\* vtkOpenFOAMReaderPrivate::RequestData: the changes in state
changedStorageType(r) ==
  r.Use64BitLabels # r.Use64BitLabelsOld \/ r.Use64BitFloats # r.Use64BitFloatsOld

topoChanged(r) ==
  \/ r.TimeStepOld = NoTimeStep
  \/ r.FaceOwner.nullptr
  \/ PolyMeshFacesDir(r.TimeStep) # PolyMeshFacesDir(r.TimeStepOld)

recreateInternalMeshMutant(r) == changedStorageType(r) \/ topoChanged(r)

recreateInternalMesh(r) ==
  \/ changedStorageType(r)
  \/ topoChanged(r)
  \/ ~r.CacheMesh
  \/ r.SkipZeroTime # r.SkipZeroTimeOld
  \/ r.ListTimeStepsByControlDict # r.ListTimeStepsByControlDictOld
  \/ r.InternalMeshSelectionStatus # r.InternalMeshSelectionStatusOld
  \/ (r.InternalMeshSelectionStatus /\ r.DecomposePolyhedra # r.DecomposePolyhedraOld)
  \/ (r.ReadZones /\ r.ReadZones # r.ReadZonesOld)

recreateBoundaryMesh(r) ==
  \/ changedStorageType(r)
  \/ r.PatchSelectionMTime # r.PatchSelectionMTimeOld
  \/ r.CreateCellToPoint # r.CreateCellToPointOld
  \/ recreateInternalMesh(r)

createEulerians(r) == r.internalMeshExists

\* After ClearInternalMeshes, ClearBoundaryMeshes and ClearMeshes
ClearedInternalMeshes(r) == [r EXCEPT !.FaceOwner = NullMesh, !.InternalMesh = NullMesh]

ClearedBoundaryMeshes(r) == [r EXCEPT !.BoundaryMesh = NullMesh]

ClearedMeshes(r) == ClearedBoundaryMeshes(ClearedInternalMeshes(r))

Cleared(r, internal, boundary) ==
  IF internal THEN ClearedMeshes(r)
  ELSE IF boundary THEN ClearedBoundaryMeshes(r)
  ELSE r

\* What the call does, from the changes in state
Did(r, files) ==
  [recreateInternalMesh |-> recreateInternalMesh(r),
   recreateBoundaryMesh |-> recreateBoundaryMesh(r),
   readFaces |-> createEulerians(r) /\ recreateBoundaryMesh(r),
   readOwner |-> createEulerians(r) /\ recreateInternalMesh(r) /\ files # "noFaces",
   called |-> TRUE,
   ret |-> IF createEulerians(r) /\ recreateBoundaryMesh(r) /\ files = "noFaces" THEN 0
           ELSE IF createEulerians(r) /\ recreateInternalMesh(r) /\ files = "noPoints" THEN 0
           ELSE 1]

\* The meshes that are made again, from the files that were read
Rebuilt(r, internal, boundary) ==
  [r EXCEPT
     !.FaceOwner = IF internal THEN BuiltMesh(r) ELSE @,
     !.InternalMesh = IF internal /\ r.internalMeshStatus THEN BuiltMesh(r) ELSE @,
     !.BoundaryMesh = IF boundary THEN BuiltMesh(r) ELSE @]

\* The end of RequestData
Loaded(r) ==
  [(IF r.CacheMesh THEN r ELSE ClearedMeshes(r)) EXCEPT
     !.TimeStepOld = IF r.CacheMesh THEN r.TimeStep ELSE NoTimeStep,
     !.InternalMeshSelectionStatusOld = r.InternalMeshSelectionStatus]

\* RequestData returned 0: polyMesh/faces was not read, or polyMesh/owner
\* was read and polyMesh/points was not
ReturnedEarly(r, files) ==
  IF files = "noPoints" THEN [r EXCEPT !.FaceOwner = BuiltMesh(r)] ELSE r

PrivateRequestData(r, files) ==
  IF Did(r, files).ret = 0
    THEN ReturnedEarly(Cleared(r, recreateInternalMesh(r), recreateBoundaryMesh(r)), files)
  ELSE IF ~createEulerians(r)
    THEN Loaded(Cleared(r, recreateInternalMesh(r), recreateBoundaryMesh(r)))
  ELSE Loaded(Rebuilt(Cleared(r, recreateInternalMesh(r), recreateBoundaryMesh(r)),
                      recreateInternalMesh(r), recreateBoundaryMesh(r)))

\* vtkOpenFOAMReader::UpdateStatus
UpdateStatus(r) ==
  [r EXCEPT !.PatchSelectionMTimeOld = r.PatchSelectionMTime,
            !.CreateCellToPointOld = r.CreateCellToPoint,
            !.DecomposePolyhedraOld = r.DecomposePolyhedra,
            !.ReadZonesOld = r.ReadZones,
            !.SkipZeroTimeOld = r.SkipZeroTime,
            !.ListTimeStepsByControlDictOld = r.ListTimeStepsByControlDict,
            !.Use64BitLabelsOld = r.Use64BitLabels,
            !.Use64BitFloatsOld = r.Use64BitFloats]

\* The files of the case as the call finds them
CaseFiles == {"ok", "noBoundary", "noFaces", "noPoints"}

\* The reader as its private reader is called: the time step is set and the
\* meta data made
Requested(requested, files) == MakeMetaDataAtTimeStep(SetTimeValue(rd, requested), files)

\* vtkOpenFOAMReader::RequestData, of a case with one region
RequestData ==
  /\ rdCalls < MaxRequests
  /\ \E requested \in 0..MaxTimeStep, files \in CaseFiles :
       \E r \in {Requested(requested, files)} :
         /\ files = "noBoundary" => MetaTopoChanged(SetTimeValue(rd, requested))
         /\ files = "noFaces" => recreateBoundaryMesh(r)
         /\ files = "noPoints" => recreateInternalMesh(r)
         /\ IF MetaFails(SetTimeValue(rd, requested), files)
           THEN /\ rd' = r
                /\ rdLast' = [NothingDone EXCEPT !.ret = 0]
           ELSE /\ rd' = UpdateStatus(PrivateRequestData(r, files))
                /\ rdLast' = Did(r, files)
  /\ rdCalls' = rdCalls + 1
  /\ UNCHANGED rdSets
  /\ UNCHANGED notRd

RdNext ==
  \/ SetUse64Bit
  \/ SetMeshOption
  \/ SetPatchArrayStatus
  \/ RequestData

----------------------------------------------------------------------------
(* vtkFoamDict, vtkFoamEntry, vtkFoamEntryValue: Read and Lookup *)

\* strtoll of the characters of a label token
DigitOf(c) == CHOOSE d \in 0..9 : <<"0", "1", "2", "3", "4", "5", "6", "7", "8", "9">>[d + 1] = c

RECURSIVE DecimalOf(_)
DecimalOf(s) ==
  IF s = <<>> \/ ~IsDigit(s[Len(s)]) THEN 0
  ELSE DigitOf(s[Len(s)]) + 10 * DecimalOf(SubSeq(s, 1, Len(s) - 1))

LabelValue(text) ==
  IF text # <<>> /\ text[1] = "-" THEN 0 - DecimalOf(Tail(text)) ELSE DecimalOf(text)

\* A number m * 10^e with m not a multiple of 10, or 0: what a double holds,
\* rounding left aside
RECURSIVE Normal(_, _)
Normal(m, e) ==
  IF m = 0 THEN [m |-> 0, e |-> 0]
  ELSE IF m % 10 = 0 THEN Normal(m \div 10, e + 1)
  ELSE [m |-> m, e |-> e]

\* What ReadIntValue and ReadFloatValue did
ValueReturned(value, st) == [res |-> "true", value |-> value, st |-> st, err |-> ""]
ValueThrown(st, msg) == [res |-> "throw", value |-> 0, st |-> st, err |-> msg]

\* num = c - '0'; while (isdigit(c = this->Getc())) num = 10 * num + c - '0';
RECURSIVE IntDigits(_, _)
IntDigits(g, num) ==
  IF IsDigit(g.c) THEN IntDigits(Getc(g.st), 10 * num + DigitOf(g.c))
  ELSE [c |-> g.c, st |-> g.st, num |-> num]

\* this->PutBack(c); return value;
PutBackValue(pb, value) ==
  IF pb.err # "" THEN ValueThrown(pb.st, pb.err) ELSE ValueReturned(value, pb.st)

\* ReadIntValue, after the digits
IntEnd(d, negNum) ==
  IF d.c = EOF THEN ValueThrown(d.st, "Unexpected EOF")
  ELSE PutBackValue(PutBack(d.st, d.c), IF negNum THEN 0 - d.num ELSE d.num)

\* ReadIntValue, after the sign
IntFirst(g, negNum) ==
  IF g.c = EOF THEN ValueThrown(g.st, "Unexpected EOF")
  ELSE IF ~IsDigit(g.c) THEN ValueThrown(g.st, "Unexpected non-digit")
  ELSE IntEnd(IntDigits(g, 0), negNum)

IntSigned(h) ==
  IF h.err # "" THEN ValueThrown(h.st, h.err)
  ELSE IF h.c \in {"-", "+"} THEN IntFirst(Getc(h.st), h.c = "-")
  ELSE IntFirst(h, FALSE)

\* vtkFoamFile::ReadIntValue
ReadIntValue(st) == IntSigned(ReadHead(SkipSpace(Getc(st))))

\* ReadFloatValue, "fast exponent multiplication": the power of ten `scale`
\* ends as, eval being what is left of the exponent
RECURSIVE Scale1(_, _)
Scale1(eval, power) == IF eval >= 1 THEN Scale1(eval - 1, power + 1) ELSE power
RECURSIVE Scale4(_, _)
Scale4(eval, power) == IF eval >= 4 THEN Scale4(eval - 4, power + 4) ELSE Scale1(eval, power)
\* An exponent loop whose second step multiplies by 1.0e+4 only
RECURSIVE Scale16Mutant(_, _)
Scale16Mutant(eval, power) ==
  IF eval >= 16 THEN Scale16Mutant(eval - 16, power + 4) ELSE Scale4(eval, power)
RECURSIVE Scale16(_, _)
Scale16(eval, power) == IF eval >= 16 THEN Scale16(eval - 16, power + 16) ELSE Scale4(eval, power)
RECURSIVE Scale64(_, _)
Scale64(eval, power) == IF eval >= 64 THEN Scale64(eval - 64, power + 64) ELSE Scale16(eval, power)

\* ReadFloatValue, at the end: num is the digits read, power the power of
\* ten it was divided and multiplied by
FloatEnd(c, st, negNum, num, power) ==
  IF c = EOF THEN ValueThrown(st, "Unexpected EOF")
  ELSE PutBackValue(PutBack(st, c), Normal(IF negNum THEN 0 - num ELSE num, power))

\* ReadFloatValue, the exponent part: x is what the loop over its digits left
FloatScaled(x, negNum, num, places, esign) ==
  FloatEnd(x.c, x.st, negNum, num, esign * Scale64(x.num, 0) - places)

FloatExponentSign(g, negNum, num, places) ==
  IF g.c = "-" THEN FloatScaled(IntDigits(Getc(g.st), 0), negNum, num, places, -1)
  ELSE IF g.c = "+" THEN FloatScaled(IntDigits(Getc(g.st), 0), negNum, num, places, 1)
  ELSE FloatScaled(IntDigits(g, 0), negNum, num, places, 1)

FloatExponent(f, negNum) ==
  IF f.c \in {"E", "e"} THEN FloatExponentSign(Getc(f.st), negNum, f.num, f.places)
  ELSE FloatEnd(f.c, f.st, negNum, f.num, 0 - f.places)

\* ReadFloatValue, the decimal part: num = num * 10.0 + (c - '0'); divisor *= 10.0;
RECURSIVE FracDigits(_, _, _)
FracDigits(g, num, places) ==
  IF IsDigit(g.c) THEN FracDigits(Getc(g.st), 10 * num + DigitOf(g.c), places + 1)
  ELSE [c |-> g.c, st |-> g.st, num |-> num, places |-> places]

FloatFraction(d, negNum) ==
  FloatExponent(IF d.c = "." THEN FracDigits(Getc(d.st), d.num, 0)
                ELSE [c |-> d.c, st |-> d.st, num |-> d.num, places |-> 0], negNum)

\* ReadFloatValue, after the sign
FloatFirst(g, negNum) ==
  IF ~IsDigit(g.c) /\ g.c # "." THEN ValueThrown(g.st, "Unexpected non-digit")
  ELSE FloatFraction(IF g.c # "." THEN IntDigits(g, 0)
                     ELSE [c |-> g.c, st |-> g.st, num |-> 0], negNum)

FloatSigned(h) ==
  IF h.err # "" THEN ValueThrown(h.st, h.err)
  ELSE IF h.c \in {"-", "+"} THEN FloatFirst(Getc(h.st), h.c = "-")
  ELSE FloatFirst(h, FALSE)

\* vtkFoamFile::ReadFloatValue
ReadFloatValue(st) == FloatSigned(ReadHead(SkipSpace(Getc(st))))

\* strtod(buf): the longest start of buf that is a number; an exponent
\* without digits is no part of it, and no digits at all give 0
RECURSIVE DigitsFrom(_, _)
DigitsFrom(s, i) == IF i <= Len(s) /\ IsDigit(s[i]) THEN 1 + DigitsFrom(s, i + 1) ELSE 0

DecimalAt(s, i) == DecimalOf(SubSeq(s, i, i + DigitsFrom(s, i) - 1))

ExponentAt(s, j) ==
  IF j > Len(s) \/ s[j] \notin {"e", "E"} THEN 0
  ELSE IF j + 1 <= Len(s) /\ s[j + 1] = "-" THEN 0 - DecimalAt(s, j + 2)
  ELSE IF j + 1 <= Len(s) /\ s[j + 1] = "+" THEN DecimalAt(s, j + 2)
  ELSE DecimalAt(s, j + 1)

StrtodParts(s, negNum, digits, places, j) ==
  IF digits = <<>> THEN Normal(0, 0)
  ELSE Normal(IF negNum THEN 0 - DecimalOf(digits) ELSE DecimalOf(digits),
              ExponentAt(s, j) - places)

StrtodFrom(s, negNum, i) ==
  IF i + DigitsFrom(s, i) <= Len(s) /\ s[i + DigitsFrom(s, i)] = "."
  THEN StrtodParts(s, negNum,
                   SubSeq(s, i, i + DigitsFrom(s, i) - 1)
                     \o SubSeq(s, i + DigitsFrom(s, i) + 1,
                               i + DigitsFrom(s, i) + DigitsFrom(s, i + DigitsFrom(s, i) + 1)),
                   DigitsFrom(s, i + DigitsFrom(s, i) + 1),
                   i + DigitsFrom(s, i) + 1 + DigitsFrom(s, i + DigitsFrom(s, i) + 1))
  ELSE StrtodParts(s, negNum, SubSeq(s, i, i + DigitsFrom(s, i) - 1), 0, i + DigitsFrom(s, i))

Strtod(s) ==
  IF s # <<>> /\ s[1] \in {"-", "+"} THEN StrtodFrom(s, s[1] = "-", 2)
  ELSE StrtodFrom(s, FALSE, 1)

\* vtkFoamToken::ToInt, of a label token
ToInt(token) == LabelValue(token.text)

\* vtkFoamToken::ToDouble and ToFloat, rounding left aside
ToDouble(token) ==
  IF token.type = "LABEL" THEN Normal(LabelValue(token.text), 0)
  ELSE IF token.type = "SCALAR" THEN Strtod(token.text)
  ELSE Normal(0, 0)

\* A vtkFoamDict: its Token (UNDEFINED for a dictionary proper) and its entries
NewDict == [Token |-> UndefinedToken, entries |-> <<>>]

DictOf(entries) == [Token |-> UndefinedToken, entries |-> entries]

\* vtkFoamDict::GetType
DictType(d) == IF d.Token.type = "UNDEFINED" THEN "DICTIONARY" ELSE d.Token.type

\* A vtkFoamEntryValue: a token, a dictionary or a list
TokenValue(tok) == [type |-> tok.type, text |-> tok.text, dict |-> NewDict, list |-> <<>>]

DictValue(d) == [type |-> "DICTIONARY", text |-> <<>>, dict |-> d, list |-> <<>>]

ListValue(type, list) == [type |-> type, text |-> <<>>, dict |-> NewDict, list |-> list]

\* new vtkFoamEntryValue(this): nothing is read into it yet
NewValue == TokenValue(UndefinedToken)

\* A vtkFoamEntry: its keyword and its values
Entry(keyword, values) == [Keyword |-> keyword, values |-> values]

\* vtkFoamEntry(entry, upperDictPtr), vtkFoamEntryValue(value, upperEntryPtr)
\* and vtkFoamDict(dict, upperDictPtr): deep copies; the Token of a
\* dictionary is not copied, and what is no dictionary proper is copied empty
RECURSIVE CopyEntry(_)
RECURSIVE CopyValue(_)
CopyValue(v) ==
  IF v.type = "DICTIONARY"
  THEN DictValue(IF DictType(v.dict) = "DICTIONARY"
                 THEN DictOf([i \in 1..Len(v.dict.entries) |-> CopyEntry(v.dict.entries[i])])
                 ELSE NewDict)
  ELSE IF v.type = "ENTRYVALUELIST"
  THEN [v EXCEPT !.list = [i \in 1..Len(v.list) |-> CopyValue(v.list[i])]]
  ELSE v
CopyEntry(entry) == Entry(entry.Keyword, [i \in 1..Len(entry.values) |-> CopyValue(entry.values[i])])

\* vtksys::RegularExpression: compile, find, start(0) and end(0), for the
\* patterns of characters, "." and "*".  GreedyEnd is where the match found
\* at `pos` ends (-1: none): a starred character takes as many characters
\* as the rest of the pattern allows.
NoMatch == -1

CharMatches(p, c) == p = "." \/ p = c

RECURSIVE RunLength(_, _, _)
RunLength(p, s, pos) ==
  IF pos < Len(s) /\ CharMatches(p, s[pos + 1]) THEN 1 + RunLength(p, s, pos + 1) ELSE 0

RECURSIVE GreedyEnd(_, _, _)
RECURSIVE StarEnd(_, _, _, _)
StarEnd(rest, s, pos, k) ==
  IF k < 0 THEN NoMatch
  ELSE IF GreedyEnd(rest, s, pos + k) # NoMatch THEN GreedyEnd(rest, s, pos + k)
  ELSE StarEnd(rest, s, pos, k - 1)
GreedyEnd(pattern, s, pos) ==
  IF pattern = <<>> THEN pos
  ELSE IF Len(pattern) >= 2 /\ pattern[2] = "*"
  THEN StarEnd(SubSeq(pattern, 3, Len(pattern)), s, pos, RunLength(pattern[1], s, pos))
  ELSE IF pos < Len(s) /\ CharMatches(pattern[1], s[pos + 1])
  THEN GreedyEnd(Tail(pattern), s, pos + 1)
  ELSE NoMatch

\* rex.compile(key): "*" follows nothing
Compiles(pattern) == pattern # <<>> /\ pattern[1] # "*"

\* rex.compile(key) && rex.find(keyword) && rex.start(0) == 0 && rex.end(0) == keyword.size()
RegexMatchesAll(key, keyword) == Compiles(key) /\ GreedyEnd(key, keyword, 0) = Len(keyword)

\* vtkFoamDict::Lookup: the index of the entry, 0 for nullptr
RECURSIVE LookupFromMutant(_, _, _, _, _)
LookupFromMutant(entries, keyword, regex, i, lastMatch) ==
  IF i > Len(entries) THEN lastMatch
  ELSE IF entries[i].Keyword = keyword \/ (regex /\ RegexMatchesAll(entries[i].Keyword, keyword))
  THEN LookupFromMutant(entries, keyword, regex, i + 1, i)
  ELSE LookupFromMutant(entries, keyword, regex, i + 1, lastMatch)

RECURSIVE LookupFrom(_, _, _, _, _)
LookupFrom(entries, keyword, regex, i, lastMatch) ==
  IF i > Len(entries) THEN lastMatch
  ELSE IF entries[i].Keyword = keyword THEN i
  ELSE IF regex /\ RegexMatchesAll(entries[i].Keyword, keyword)
  THEN LookupFrom(entries, keyword, regex, i + 1, i)
  ELSE LookupFrom(entries, keyword, regex, i + 1, lastMatch)

Lookup(d, keyword, regex) ==
  IF d.Token.type # "UNDEFINED" THEN 0 ELSE LookupFrom(d.entries, keyword, regex, 1, 0)

\* What Read of a dictionary, an entry or a value did: "true" (returned),
\* "throw", "undefined" (undefined behaviour), "diverges" (a loop that does
\* not end)
DictDone(res, st, err, d) == [res |-> res, st |-> st, err |-> err, dict |-> d]

EntryDone(res, st, err, entries) == [res |-> res, st |-> st, err |-> err, entries |-> entries]

ValueDone(res, st, err, value, ret) ==
  [res |-> res, st |-> st, err |-> err, value |-> value, ret |-> ret]

\* vtkFoamFile::ReadExpecting(char)
ExpectedChar(h, expected) ==
  IF h.err # "" THEN h
  ELSE IF h.c # expected THEN Failed(h.c, h.st, "Expected punctuation token")
  ELSE h

ReadExpectingChar(st, expected) == ExpectedChar(ReadHead(SkipSpace(Getc(st))), expected)

\* The dictionaries a dictionary being read is in, outermost first: the
\* entries of each, and the entry and the value the next one hangs under
\* (inList: the dictionary is an element of a list, whose type is not set yet)
Upper(entries, e, v, inList) == [entries |-> entries, e |-> e, v |-> v, inList |-> inList]

\* The entries of the dictionary at level k as they are while the innermost
\* dictionary holds `cur`
RECURSIVE View(_, _, _)
View(uppers, k, cur) ==
  IF k > Len(uppers) THEN cur
  ELSE IF uppers[k].inList THEN uppers[k].entries
  ELSE [uppers[k].entries EXCEPT
          ![uppers[k].e].values[uppers[k].v] = DictValue(DictOf(View(uppers, k + 1, cur)))]

\* for (uDictPtr = this;;) uDictPtr->Lookup(identifier) ... GetUpperDictPtr():
\* the level and the index of the entry found, from level k upwards
NotFound == [level |-> 0, index |-> 0]

RECURSIVE Identified(_, _, _, _)
Identified(uppers, cur, k, identifier) ==
  IF k = 0 THEN NotFound
  ELSE IF Lookup(DictOf(View(uppers, k, cur)), identifier, FALSE) # 0
  THEN [level |-> k, index |-> Lookup(DictOf(View(uppers, k, cur)), identifier, FALSE)]
  ELSE Identified(uppers, cur, k - 1, identifier)

IdentifiedEntry(uppers, cur, found) == View(uppers, found.level, cur)[found.index]

\* The dictionary found is the one being read: each entry pushed makes it longer
IsThisDict(uppers, found) ==
  /\ found.level = Len(uppers)
  /\ found.index = uppers[found.level].e
  /\ uppers[found.level].v = 1
  /\ ~uppers[found.level].inList

\* new vtkFoamEntry(*identifiedDict[entryI], this), for entryI from n on
RECURSIVE Spliced(_, _, _, _)
Spliced(uppers, cur, found, n) ==
  IF n > Len(IdentifiedEntry(uppers, cur, found).values[1].dict.entries) THEN cur
  ELSE Spliced(uppers,
               Append(cur, CopyEntry(IdentifiedEntry(uppers, cur, found).values[1].dict.entries[n])),
               found, n + 1)

\* vtkFoamDict::Read, an identifier among the keywords
SubstituteFound(st, uppers, this, found, identifier) ==
  IF found = NotFound THEN DictDone("throw", st, "Substituting entry not found", this)
  ELSE IF IdentifiedEntry(uppers, this.entries, found).values = <<>>
  THEN DictDone("undefined", st, "FirstValue of an entry without values", this)
  ELSE IF IdentifiedEntry(uppers, this.entries, found).values[1].type # "DICTIONARY"
  THEN DictDone("throw", st, "Expected dictionary for substituting entry", this)
  ELSE IF IsThisDict(uppers, found)
  THEN IF this.entries = <<>> THEN DictDone("true", st, "", this)
       ELSE DictDone("diverges", st, "entries pushed to the dictionary they are copied from", this)
  ELSE DictDone("true", st, "", [this EXCEPT !.entries = Spliced(uppers, @, found, 1)])

Substitute(st, uppers, this, identifier) ==
  SubstituteFound(st, uppers, this,
                  Identified(uppers, this.entries, Len(uppers) + 1, identifier), identifier)

RECURSIVE Call(_, _)

\* vtkFoamEntryValue::ReadDictionary
ReadDictionary(d) == ValueDone(d.res, d.st, d.err, DictValue(d.dict), 1)

\* vtkFoamEntryValue::Read: the upper dictionaries of a dictionary read as
\* the value being read of entry e
UppersAt(uppers, entries, e, inList) ==
  Append(uppers, Upper([entries EXCEPT ![e].values = Append(@, NewValue)], e,
                       Len(entries[e].values) + 1, inList))

WordUniform == <<"u", "n", "i", "f", "o", "r", "m">>
WordNonuniform == <<"n", "o", "n">> \o WordUniform
WordList(type) == <<"L", "i", "s", "t", "<">> \o type \o <<">">>
WordScalar == <<"s", "c", "a", "l", "a", "r">>
WordLabel == <<"l", "a", "b", "e", "l">>

\* vtkFoamReadValue<T>::ReadValue: ReadIntValue for a list of labels,
\* ReadFloatValue for a list of scalars
ReadValue(st, listType) ==
  IF listType = "LABELLIST" THEN ReadIntValue(st) ELSE ReadFloatValue(st)

\* listTraits::ReadAsciiList: size values, each by ReadValue
RECURSIVE ReadAsciiList(_, _, _, _)
AsciiListValue(v, size, list, listType) ==
  IF v.res # "true" THEN [res |-> "throw", st |-> v.st, list |-> list, err |-> v.err]
  ELSE ReadAsciiList(v.st, size - 1, Append(list, v.value), listType)

ReadAsciiList(st, size, list, listType) ==
  IF size = 0 THEN [res |-> "true", st |-> st, list |-> list, err |-> ""]
  ELSE AsciiListValue(ReadValue(st, listType), size, list, listType)

\* list.ReadUniformValues: one value is read and fills the list
ReadUniformValues(l, size) ==
  IF l.res # "true" THEN l ELSE [l EXCEPT !.list = [i \in 1..size |-> l.list[1]]]

NonuniformClosed(x, listType, list) ==
  IF x.err # "" THEN ValueDone("throw", x.st, x.err, ListValue(listType, list), 1)
  ELSE ValueDone("true", x.st, "", ListValue(listType, list), 1)

NonuniformRead(l, listType, close) ==
  IF l.res # "true" THEN ValueDone(l.res, l.st, l.err, ListValue(listType, l.list), 1)
  ELSE NonuniformClosed(ReadExpectingChar(l.st, close), listType, l.list)

RECURSIVE ReadValues(_, _, _)
ReadValues(t, listType, list) ==
  IF t.res \in {"throw", "undefined"}
  THEN ValueDone(t.res, t.st, t.err, ListValue(listType, list), 1)
  ELSE IF t.res = "false" \/ TokenIsChar(t.token, ")")
  THEN ValueDone("true", t.st, "", ListValue(listType, list), 1)
  ELSE IF t.token.type \notin {"LABEL", "SCALAR"}
            \/ (listType = "LABELLIST" /\ t.token.type # "LABEL")
  THEN ValueDone("throw", t.st, "Expected an integer or a (", ListValue(listType, list), 1)
  ELSE ReadValues(Read(t.st, <<>>, "garbage"), listType, Append(list, t.token.text))

\* A reader that gives a sized list without elements the type EMPTYLIST
NonuniformSizedMutant(t, listType, size) ==
  IF t.res = "false"
  THEN ValueDone("throw", t.st, "Unexpected EOF", ListValue(listType, <<>>), 1)
  ELSE IF t.res # "true" THEN ValueDone(t.res, t.st, t.err, ListValue(listType, <<>>), 1)
  ELSE IF TokenIsChar(t.token, "{")
  THEN NonuniformRead(ReadUniformValues(ReadAsciiList(t.st, 1, <<>>, listType), size), listType, "}")
  ELSE IF ~TokenIsChar(t.token, "(")
  THEN ValueDone("throw", t.st, "Expected '('", ListValue(listType, <<>>), 1)
  ELSE NonuniformRead(ReadAsciiList(t.st, size, <<>>, listType),
                       IF size = 0 THEN "EMPTYLIST" ELSE listType, ")")

NonuniformSized(t, listType, size) ==
  IF t.res = "false"
  THEN ValueDone("throw", t.st, "Unexpected EOF", ListValue(listType, <<>>), 1)
  ELSE IF t.res # "true" THEN ValueDone(t.res, t.st, t.err, ListValue(listType, <<>>), 1)
  ELSE IF TokenIsChar(t.token, "{")
  THEN NonuniformRead(ReadUniformValues(ReadAsciiList(t.st, 1, <<>>, listType), size), listType, "}")
  ELSE IF ~TokenIsChar(t.token, "(")
  THEN ValueDone("throw", t.st, "Expected '('", ListValue(listType, <<>>), 1)
  ELSE NonuniformRead(ReadAsciiList(t.st, size, <<>>, listType), listType, ")")

ReadNonuniformListOf(t, listType) ==
  IF t.res = "false"
  THEN ValueDone("throw", t.st, "Unexpected EOF", ListValue(listType, <<>>), 1)
  ELSE IF t.res # "true" THEN ValueDone(t.res, t.st, t.err, ListValue(listType, <<>>), 1)
  ELSE IF t.token.type = "LABEL"
  THEN IF LabelValue(t.token.text) < 0
       THEN ValueDone("throw", t.st, "List size must not be negative",
                      ListValue(listType, <<>>), 1)
       ELSE NonuniformSized(Read(t.st, <<>>, "garbage"), listType, LabelValue(t.token.text))
  ELSE IF TokenIsChar(t.token, "(")
  THEN ReadValues(Read(t.st, <<>>, "garbage"), listType, <<>>)
  ELSE ValueDone("throw", t.st, "Expected integer or '('", ListValue(listType, <<>>), 1)

ReadNonuniformList(st, listType) == ReadNonuniformListOf(Read(st, <<>>, "garbage"), listType)

\* vtkFoamEntryValue::Read, after "nonuniform": an empty list has no list type
EmptyListClosed(x) ==
  IF x.err # "" THEN ValueDone("throw", x.st, x.err, ListValue("EMPTYLIST", <<>>), 1)
  ELSE ValueDone("true", x.st, "", ListValue("EMPTYLIST", <<>>), 1)

EmptyListOpened(x) ==
  IF x.err # "" THEN ValueDone("throw", x.st, x.err, ListValue("EMPTYLIST", <<>>), 1)
  ELSE EmptyListClosed(ReadExpectingChar(x.st, ")"))

ReadNonuniform(t) ==
  IF t.res = "false"
  THEN ValueDone("throw", t.st, "Expected list type specifier, found EOF", NewValue, 1)
  ELSE IF t.res # "true" THEN ValueDone(t.res, t.st, t.err, NewValue, 1)
  ELSE IF TokenIsString(t.token, WordList(WordScalar)) THEN ReadNonuniformList(t.st, "SCALARLIST")
  ELSE IF TokenIsString(t.token, WordList(WordLabel)) THEN ReadNonuniformList(t.st, "LABELLIST")
  ELSE IF t.token.type = "LABEL" /\ LabelValue(t.token.text) = 0
  THEN EmptyListOpened(ReadExpectingChar(t.st, "("))
  ELSE IF TokenIsChar(t.token, ";")
  THEN ValueDone("true", t.st, "", TokenValue(Token("STRING", WordNonuniform)), 0)
  ELSE ValueDone("throw", t.st, "Unsupported nonuniform list type", NewValue, 1)

\* vtkFoamEntryValue::Read, after "uniform"
ReadUniform(t, uppers, entries, e) ==
  IF t.res = "false"
  THEN ValueDone("throw", t.st, "Expected a uniform value or a list, found unexpected EOF",
                 NewValue, 1)
  ELSE IF t.res # "true" THEN ValueDone(t.res, t.st, t.err, NewValue, 1)
  ELSE IF TokenIsChar(t.token, "(") THEN Call("ReadList", <<t.st, uppers, entries, e>>)
  ELSE IF TokenIsChar(t.token, ";")
  THEN ValueDone("true", t.st, "", TokenValue(Token("STRING", WordUniform)), 0)
  ELSE IF t.token.type \in {"LABEL", "SCALAR", "STRING"}
  THEN ValueDone("true", t.st, "", TokenValue(t.token), 1)
  ELSE ValueDone("throw", t.st, "Expected number, string or (", NewValue, 1)

\* vtkFoamEntryValue::Read, currToken being what io.Read did
ValueOfToken(t, uppers, entries, e) ==
  IF t.res = "false" THEN ValueDone("throw", t.st, "Unexpected EOF", NewValue, 1)
  ELSE IF t.res # "true" THEN ValueDone(t.res, t.st, t.err, NewValue, 1)
  ELSE IF TokenIsChar(t.token, "{")
  THEN ReadDictionary(Call("DictRead", <<t.st, NewDict, UppersAt(uppers, entries, e, FALSE), TRUE,
                               UndefinedToken>>))
  ELSE IF TokenIsChar(t.token, "(") THEN Call("ReadList", <<t.st, uppers, entries, e>>)
  ELSE IF TokenIsChar(t.token, "[")
  THEN ValueDone("unmodelled", t.st, "ReadDimensionSet", NewValue, 1)
  ELSE IF TokenIsString(t.token, WordUniform)
  THEN ReadUniform(Read(t.st, <<>>, "garbage"), uppers, entries, e)
  ELSE IF TokenIsString(t.token, WordNonuniform) THEN ReadNonuniform(Read(t.st, <<>>, "garbage"))
  ELSE IF TokenIsString(t.token, WordList(WordScalar)) THEN ReadNonuniformList(t.st, "SCALARLIST")
  ELSE IF TokenIsString(t.token, WordList(WordLabel)) THEN ReadNonuniformList(t.st, "LABELLIST")
  ELSE ValueDone("true", t.st, "", TokenValue(t.token), 1)

ValueRead(st, uppers, entries, e) == ValueOfToken(Read(st, <<>>, "garbage"), uppers, entries, e)

\* vtkFoamEntryValue::ReadList: the loop over the rest of a list whose type
\* the first tokens set

ListNested(sub, listType, list, uppers, entries, e) ==
  IF sub.res # "true" THEN sub
  ELSE Call("ListLoop", <<Read(sub.st, <<>>, "garbage"), listType,
                IF listType = "ENTRYVALUELIST" THEN Append(list, sub.value) ELSE list,
                uppers, entries, e>>)

ListSized(t, list, uppers, entries, e) ==
  IF t.res = "false"
  THEN ValueDone("throw", t.st, "Unexpected EOF", ListValue("ENTRYVALUELIST", list), 1)
  ELSE IF t.res # "true"
  THEN ValueDone(t.res, t.st, t.err, ListValue("ENTRYVALUELIST", list), 1)
  ELSE IF ~TokenIsChar(t.token, "(")
  THEN ValueDone("throw", t.st, "Expected '('", ListValue("ENTRYVALUELIST", list), 1)
  ELSE Call("ListNested", <<Call("ReadList", <<t.st, uppers, entries, e>>), "ENTRYVALUELIST", list, uppers, entries, e>>)

ListLoop(t, listType, list, uppers, entries, e) ==
  IF t.res \notin {"true", "false"}
  THEN ValueDone(t.res, t.st, t.err, ListValue(listType, list), 1)
  ELSE IF t.res = "false" \/ TokenIsChar(t.token, ")")
  THEN ValueDone("true", t.st, "", ListValue(listType, list), 1)
  ELSE IF listType = "LABELLIST" /\ t.token.type = "SCALAR"
  THEN Call("ListLoop", <<Read(t.st, <<>>, "garbage"), "SCALARLIST", Append(list, t.token.text),
                uppers, entries, e>>)
  ELSE IF \/ listType = "LABELLIST" /\ t.token.type = "LABEL"
          \/ listType = "SCALARLIST" /\ t.token.type \in {"LABEL", "SCALAR"}
          \/ listType = "STRINGLIST" /\ t.token.type = "STRING"
  THEN Call("ListLoop", <<Read(t.st, <<>>, "garbage"), listType, Append(list, t.token.text),
                uppers, entries, e>>)
  ELSE IF listType = "SCALARLIST" /\ TokenIsChar(t.token, "(")
  THEN Call("ListNested", <<Call("ReadList", <<t.st, uppers, entries, e>>), listType, list, uppers, entries, e>>)
  ELSE IF listType = "ENTRYVALUELIST" /\ t.token.type = "LABEL"
  THEN Call("ListSized", <<Read(t.st, <<>>, "garbage"), list, uppers, entries, e>>)
  ELSE IF listType = "ENTRYVALUELIST" THEN Call("ListSized", <<t, list, uppers, entries, e>>)
  ELSE IF listType \in {"LABELLIST", "SCALARLIST"}
  THEN ValueDone("throw", t.st, "Expected a number", ListValue(listType, list), 1)
  ELSE IF listType = "STRINGLIST"
  THEN ValueDone("throw", t.st, "Expected a string", ListValue(listType, list), 1)
  ELSE ValueDone("throw", t.st, "Unexpected token", ListValue(listType, list), 1)

\* ReadList, a list of lists or dictionaries: the values that follow the
\* first are read as arbitrary values, up to the closing ')'
ListValues(v, list, uppers, entries, e) ==
  IF v.res # "true" THEN [v EXCEPT !.value = ListValue("UNDEFINED", list)]
  ELSE IF v.value.type = "PUNCTUATION" /\ v.value.text = <<")">>
  THEN ValueDone("true", v.st, "", ListValue("ENTRYVALUELIST", list), 1)
  ELSE IF v.value.type = "PUNCTUATION" /\ v.value.text \in {<<"}">>, <<";">>}
  THEN ValueDone("throw", v.st, "Expected ')'", ListValue("UNDEFINED", list), 1)
  ELSE Call("ListValues", <<Call("ValueRead", <<v.st, uppers, entries, e>>), Append(list, v.value),
                  uppers, entries, e>>)

ListOfValues(first, uppers, entries, e) ==
  IF first.res # "true" THEN first
  ELSE Call("ListValues", <<Call("ValueRead", <<first.st, uppers, entries, e>>), <<first.value>>, uppers, entries, e>>)

\* ReadList, after a label
ListAfterLabel(n, first, uppers, entries, e) ==
  IF n.res = "false" THEN ValueDone("throw", n.st, "Unexpected EOF", NewValue, 1)
  ELSE IF n.res # "true" THEN ValueDone(n.res, n.st, n.err, NewValue, 1)
  ELSE IF n.token.type = "LABEL"
  THEN Call("ListLoop", <<Read(n.st, <<>>, "garbage"), "LABELLIST", <<first.text, n.token.text>>,
                uppers, entries, e>>)
  ELSE IF n.token.type = "SCALAR"
  THEN Call("ListLoop", <<Read(n.st, <<>>, "garbage"), "SCALARLIST", <<first.text, n.token.text>>,
                uppers, entries, e>>)
  ELSE IF TokenIsChar(n.token, "(")
  THEN Call("ListNested", <<Call("ReadList", <<n.st, uppers, entries, e>>), "ENTRYVALUELIST", <<>>,
                  uppers, entries, e>>)
  ELSE IF TokenIsChar(n.token, ")")
  THEN ValueDone("true", n.st, "", ListValue("LABELLIST", <<first.text>>), 1)
  ELSE ValueDone("throw", n.st, "Expected number, '(' or ')'", NewValue, 1)

\* ReadList, after a string
ListAfterString(n, first, uppers, entries, e) ==
  IF n.res = "false" THEN ValueDone("throw", n.st, "Unexpected EOF", NewValue, 1)
  ELSE IF n.res # "true" THEN ValueDone(n.res, n.st, n.err, NewValue, 1)
  ELSE IF n.token.type = "STRING"
  THEN Call("ListLoop", <<Read(n.st, <<>>, "garbage"), "STRINGLIST", <<first.text, n.token.text>>,
                uppers, entries, e>>)
  ELSE IF TokenIsChar(n.token, "{")
  THEN IF first.text = <<>>
       THEN ValueDone("terminate", n.st, "a const char* is thrown", NewValue, 1)
       ELSE ReadDictionary(Call("DictRead", <<n.st, NewDict, UppersAt(uppers, entries, e, FALSE), TRUE,
                                    first>>))
  ELSE IF TokenIsChar(n.token, ")")
  THEN ValueDone("true", n.st, "", ListValue("STRINGLIST", <<first.text>>), 1)
  ELSE ValueDone("throw", n.st, "Expected string, '{' or ')'", NewValue, 1)

\* ReadList, currToken being what the unchecked io.Read did
ListFirst(t, uppers, entries, e) ==
  IF t.res \notin {"true", "false"} THEN ValueDone(t.res, t.st, t.err, NewValue, 1)
  ELSE IF t.token.type = "LABEL"
  THEN ListAfterLabel(Read(t.st, <<>>, "garbage"), t.token, uppers, entries, e)
  ELSE IF t.token.type = "SCALAR"
  THEN Call("ListLoop", <<Read(t.st, <<>>, "garbage"), "SCALARLIST", <<t.token.text>>, uppers, entries, e>>)
  ELSE IF t.token.type = "STRING"
  THEN ListAfterString(Read(t.st, <<>>, "garbage"), t.token, uppers, entries, e)
  ELSE IF TokenIsChar(t.token, "(")
  THEN Call("ListOfValues", <<Call("ReadList", <<t.st, uppers, entries, e>>), uppers, entries, e>>)
  ELSE IF TokenIsChar(t.token, "{")
  THEN Call("ListOfValues", <<ReadDictionary(Call("DictRead", <<t.st, NewDict, UppersAt(uppers, entries, e, TRUE),
                                            TRUE, UndefinedToken>>)),
                    uppers, entries, e>>)
  ELSE IF TokenIsChar(t.token, ")")
  THEN ValueDone("true", t.st, "", ListValue("EMPTYLIST", <<>>), 1)
  ELSE Call("ListLoop", <<Read(t.st, <<>>, "garbage"), "UNDEFINED", <<>>, uppers, entries, e>>)

ReadList(st, uppers, entries, e) == ListFirst(Read(st, <<>>, "garbage"), uppers, entries, e)

\* vtkFoamEntry::Read, the special cases of a label followed by a value
SecondLast(values) == values[Len(values) - 1]

Last(values) == values[Len(values)]

ButLast(values, n) == SubSeq(values, 1, Len(values) - n)

Filled(text, size) == [i \in 1..size |-> text]

Combined(values) ==
  IF Len(values) < 2 \/ SecondLast(values).type # "LABEL" THEN values
  ELSE IF Last(values).type = "EMPTYLIST" /\ LabelValue(SecondLast(values).text) = 0
  THEN Append(ButLast(values, 2), ListValue("EMPTYLIST", <<>>))
  ELSE IF Last(values).type = "DICTIONARY" /\ DictType(Last(values).dict) = "LABEL"
  THEN Append(ButLast(values, 2),
              ListValue("LABELLIST", Filled(Last(values).dict.Token.text,
                                            LabelValue(SecondLast(values).text))))
  ELSE IF Last(values).type = "DICTIONARY" /\ DictType(Last(values).dict) = "SCALAR"
  THEN Append(ButLast(values, 2),
              ListValue("SCALARLIST", Filled(Last(values).dict.Token.text,
                                             LabelValue(SecondLast(values).text))))
  ELSE values

\* vtkFoamEntry::Read, an identifier among the values: the values of the
\* entry found are copied, from value n on
RECURSIVE SplicedValues(_, _, _, _, _)
SplicedValues(uppers, entries, e, found, n) ==
  IF n > Len(IdentifiedEntry(uppers, entries, found).values) THEN entries
  ELSE SplicedValues(uppers,
                     [entries EXCEPT ![e].values =
                        Append(@, CopyValue(IdentifiedEntry(uppers, entries, found).values[n]))],
                     e, found, n + 1)

EntrySubstituteFound(st, uppers, entries, e, found) ==
  IF found = NotFound THEN EntryDone("throw", st, "substituting entry not found", entries)
  ELSE IF found.level = Len(uppers) + 1 /\ found.index = e
  THEN IF entries[e].values = <<>> THEN Call("EntryRead", <<st, uppers, entries, e>>)
       ELSE EntryDone("diverges", st, "values pushed to the entry they are copied from", entries)
  ELSE Call("EntryRead", <<st, uppers, SplicedValues(uppers, entries, e, found, 1), e>>)

EntrySubstitute(st, uppers, entries, e, identifier) ==
  EntrySubstituteFound(st, uppers, entries, e,
                       Identified(uppers, entries, Len(uppers) + 1, identifier))

\* vtkFoamEntry::Read, after a value was read
EntryAfter(st, uppers, entries, e) ==
  IF Last(entries[e].values).type = "IDENTIFIER"
  THEN EntrySubstitute(st, uppers, [entries EXCEPT ![e].values = ButLast(@, 1)], e,
                       Last(entries[e].values).text)
  ELSE IF Last(entries[e].values).type = "PUNCTUATION" /\ Last(entries[e].values).text = <<";">>
  THEN EntryDone("true", st, "", [entries EXCEPT ![e].values = ButLast(@, 1)])
  ELSE IF Last(entries[e].values).type = "DICTIONARY" THEN EntryDone("true", st, "", entries)
  ELSE IF /\ Last(entries[e].values).type = "PUNCTUATION"
          /\ Last(entries[e].values).text \in {<<"}">>, <<")">>}
  THEN EntryDone("throw", st, "Unmatched", entries)
  ELSE Call("EntryRead", <<st, uppers, entries, e>>)

EntryValue(v, uppers, entries, e) ==
  IF v.res # "true" THEN EntryDone(v.res, v.st, v.err, entries)
  ELSE IF v.ret = 0
  THEN EntryDone("true", v.st, "", [entries EXCEPT ![e].values = Append(@, v.value)])
  ELSE EntryAfter(v.st, uppers, [entries EXCEPT ![e].values = Combined(Append(@, v.value))], e)

\* vtkFoamEntry::Read, of entry e of `entries`
EntryRead(st, uppers, entries, e) == EntryValue(Call("ValueRead", <<st, uppers, entries, e>>), uppers, entries, e)

\* vtkFoamDict::Read, the general dictionary

\* this->remove_back() after the keyword FoamFile
WordFoamFile == <<"F", "o", "a", "m", "F", "i", "l", "e">>

DropHeader(d, keyword) ==
  IF d.res = "true" /\ keyword = WordFoamFile
  THEN [d EXCEPT !.dict.entries = ButLast(@, IF @ = <<>> THEN 0 ELSE 1)]
  ELSE d

EntryIn(r, this) == DictDone(r.res, r.st, r.err, [this EXCEPT !.entries = r.entries])

\* previousEntry->Clear(); previousEntry->Read(io);
Replace(st, uppers, this, p) ==
  EntryIn(Call("EntryRead", <<st, uppers, [this.entries EXCEPT ![p].values = <<>>], p>>), this)

\* io.ReadExpecting('{'); previousEntry->FirstValue().Dictionary().Read(io, true);
MergedIn(d, this, p) == [d EXCEPT !.dict = [this EXCEPT !.entries[p].values[1] = DictValue(d.dict)]]

Merge(x, uppers, this, p) ==
  IF x.err # "" THEN DictDone("throw", x.st, x.err, this)
  ELSE MergedIn(Call("DictRead", <<x.st, this.entries[p].values[1].dict,
                         Append(uppers, Upper(this.entries, p, 1, FALSE)), TRUE, UndefinedToken>>),
                this, p)

INPUT_MODE_MERGE == "INPUT_MODE_MERGE"
INPUT_MODE_OVERWRITE == "INPUT_MODE_OVERWRITE"

\* a keyword the dictionary holds already, as entry p
PreviousEntry(st, uppers, this, p) ==
  IF st.inputMode = INPUT_MODE_MERGE
  THEN IF this.entries[p].values = <<>>
       THEN DictDone("undefined", st, "FirstValue of an entry without values", this)
       ELSE IF this.entries[p].values[1].type = "DICTIONARY"
       THEN Merge(ReadExpectingChar(st, "{"), uppers, this, p)
       ELSE Call("Replace", <<st, uppers, this, p>>)
  ELSE IF st.inputMode = INPUT_MODE_OVERWRITE THEN Call("Replace", <<st, uppers, this, p>>)
  ELSE DictDone("throw", st, "Found duplicated entries with keyword", this)

Keyword(st, uppers, this, keyword) ==
  IF Lookup(this, keyword, FALSE) # 0
  THEN DropHeader(PreviousEntry(st, uppers, this, Lookup(this, keyword, FALSE)), keyword)
  ELSE DropHeader(EntryIn(Call("EntryRead", <<st, uppers, Append(this.entries, Entry(keyword, <<>>)),
                                    Len(this.entries) + 1>>), this),
                  keyword)

IsKeyword(tok) == tok.type \in {"STRING", "IDENTIFIER"} \/ TokenIsChar(tok, ";")

\* while (io.Read(currToken) && (STRING || IDENTIFIER || ';')), and what follows the loop
DictNextToken(t, uppers, this) ==
  IF t.res \notin {"true", "false"} THEN DictDone(t.res, t.st, t.err, this)
  ELSE IF t.res = "true" /\ IsKeyword(t.token) THEN Call("DictLoop", <<t.token, t.st, uppers, this>>)
  ELSE IF t.token.type = "TOKEN_ERROR" \/ TokenIsChar(t.token, "}") \/ TokenIsChar(t.token, ")")
  THEN DictDone("true", t.st, "", this)
  ELSE DictDone("throw", t.st, "Expected keyword, closing brace, ';' or EOF", this)

DictContinue(d, uppers) ==
  IF d.res # "true" THEN d ELSE DictNextToken(Read(d.st, <<>>, "garbage"), uppers, d.dict)

DictLoop(tok, st, uppers, this) ==
  IF tok.type = "STRING" THEN Call("DictContinue", <<Keyword(st, uppers, this, tok.text), uppers>>)
  ELSE IF tok.type = "IDENTIFIER" THEN Call("DictContinue", <<Substitute(st, uppers, this, tok.text), uppers>>)
  ELSE Call("DictContinue", <<DictDone("true", st, "", this), uppers>>)

DictGeneral(tok, st, uppers, this) ==
  IF IsKeyword(tok) THEN Call("DictLoop", <<tok, st, uppers, this>>)
  ELSE DictDone("throw", st, "Expected keyword or identifier", this)

\* Read, a sub-dictionary `LABEL{LABELorSCALAR}`
LabelDict(x, this, tok) ==
  IF x.err # "" THEN DictDone("throw", x.st, x.err, [this EXCEPT !.Token = tok])
  ELSE DictDone("true", x.st, "", [this EXCEPT !.Token = tok])

\* Read, a list of dictionaries: the size and '(' come first
ListOfDictsFirst(t, uppers, this) ==
  IF t.res = "false" THEN DictDone("throw", t.st, "Unexpected EOF", this)
  ELSE IF t.res # "true" THEN DictDone(t.res, t.st, t.err, this)
  ELSE Call("DictGeneral", <<t.token, t.st, uppers, this>>)

EmptyListOfDicts(x, this) ==
  IF x.err # "" THEN DictDone("throw", x.st, x.err, this) ELSE DictDone("true", x.st, "", this)

ListOfDicts(x, uppers, this, size) ==
  IF x.err # "" THEN DictDone("throw", x.st, x.err, this)
  ELSE IF size > 0 THEN ListOfDictsFirst(Read(x.st, <<>>, "garbage"), uppers, this)
  ELSE EmptyListOfDicts(ReadExpectingChar(x.st, ")"), this)

\* Read, the first token
DictFirst(t, uppers, this, isSubDictionary) ==
  IF t.res = "false" THEN DictDone("throw", t.st, "Unexpected EOF", this)
  ELSE IF t.res # "true" THEN DictDone(t.res, t.st, t.err, this)
  ELSE IF isSubDictionary /\ t.token.type \in {"LABEL", "SCALAR"}
  THEN LabelDict(ReadExpectingChar(t.st, "}"), this, t.token)
  ELSE IF isSubDictionary /\ TokenIsChar(t.token, "}") THEN DictDone("true", t.st, "", this)
  ELSE IF ~isSubDictionary /\ t.token.type = "LABEL"
  THEN ListOfDicts(ReadExpectingChar(t.st, "("), uppers, this, LabelValue(t.token.text))
  ELSE Call("DictGeneral", <<t.token, t.st, uppers, this>>)

\* Read, firstToken is a string: the stream is the sub-dictionary of that keyword
AfterFirstKeyword(t, uppers, this) ==
  IF t.res \notin {"true", "false"} THEN DictDone(t.res, t.st, t.err, this)
  ELSE IF t.res = "false" \/ TokenIsChar(t.token, "}") \/ TokenIsChar(t.token, ")")
  THEN DictDone("true", t.st, "", this)
  ELSE Call("DictGeneral", <<t.token, t.st, uppers, this>>)

FirstKeywordRead(d, uppers, this, keyword) ==
  IF d.res # "true"
  THEN [d EXCEPT !.dict = DictOf(Append(this.entries, Entry(keyword, <<DictValue(d.dict)>>)))]
  ELSE AfterFirstKeyword(Read(d.st, <<>>, "garbage"), uppers,
                         DictOf(Append(this.entries, Entry(keyword, <<DictValue(d.dict)>>))))

FirstKeyword(st, uppers, this, keyword) ==
  FirstKeywordRead(Call("DictRead", <<st, NewDict,
                            UppersAt(uppers, Append(this.entries, Entry(keyword, <<>>)),
                                     Len(this.entries) + 1, FALSE),
                            TRUE, UndefinedToken>>),
                   uppers, this, keyword)

\* vtkFoamDict::Read(io, isSubDictionary, firstToken) of the dictionary
\* `this`, up to its catch
DictRead(st, this, uppers, isSubDictionary, firstToken) ==
  IF firstToken.type = "UNDEFINED"
  THEN DictFirst(Read(st, <<>>, "garbage"), uppers, this, isSubDictionary)
  ELSE IF firstToken.type = "STRING" THEN FirstKeyword(st, uppers, this, firstToken.text)
  ELSE Call("DictGeneral", <<firstToken, st, uppers, this>>)

\* The readers below call each other through Call: Call(f, <<x, y>>) is f(x, y)
Call(f, a) ==
  CASE f = "ValueRead" -> ValueRead(a[1], a[2], a[3], a[4])
    [] f = "ListNested" -> ListNested(a[1], a[2], a[3], a[4], a[5], a[6])
    [] f = "ListSized" -> ListSized(a[1], a[2], a[3], a[4], a[5])
    [] f = "ListLoop" -> ListLoop(a[1], a[2], a[3], a[4], a[5], a[6])
    [] f = "ListValues" -> ListValues(a[1], a[2], a[3], a[4], a[5])
    [] f = "ListOfValues" -> ListOfValues(a[1], a[2], a[3], a[4])
    [] f = "ReadList" -> ReadList(a[1], a[2], a[3], a[4])
    [] f = "EntryRead" -> EntryRead(a[1], a[2], a[3], a[4])
    [] f = "Replace" -> Replace(a[1], a[2], a[3], a[4])
    [] f = "DictContinue" -> DictContinue(a[1], a[2])
    [] f = "DictLoop" -> DictLoop(a[1], a[2], a[3], a[4])
    [] f = "DictGeneral" -> DictGeneral(a[1], a[2], a[3], a[4])
    [] f = "DictRead" -> DictRead(a[1], a[2], a[3], a[4], a[5])

\* Read of a file: what a sub-dictionary threw is caught here, the error
\* set and false returned
Caught(d) == IF d.res = "throw" THEN [d EXCEPT !.res = "false"] ELSE d

ReadFile(contents, inputMode) ==
  Caught(Call("DictRead", <<OpenedStream(contents, inputMode), NewDict, <<>>, FALSE, UndefinedToken>>))

\* The pieces the dictionary files of the model are made of
\* a 1;
EntryA1 == <<"a", " ", "1", ";">>
\* a 2;
EntryA2 == <<"a", " ", "2", ";">>
\* a;
EntryANone == <<"a", ";">>
\* a {b 1;}
DictAB == <<"a", " ", "{", "b", " ", "1", ";", "}">>
\* a {b {c 1;}}
DictABC == <<"a", " ", "{", "b", " ", "{", "c", " ", "1", ";", "}", "}">>
\* a {b {d 2;} c 1;}
DictABD == <<"a", " ", "{", "b", " ", "{", "d", " ", "2", ";", "}", " ", "c", " ", "1", ";", "}">>
\* $a
SubstA == <<"$", "a", " ">>
\* b {$a }
DictBSubstA == <<"b", " ", "{", "$", "a", " ", "}">>
\* a {b 1; $a }
DictASubstA == <<"a", " ", "{", "b", " ", "1", ";", " ", "$", "a", " ", "}">>
\* a {a 1;}
DictAA == <<"a", " ", "{", "a", " ", "1", ";", "}">>
\* #inputMode overwrite
ModeOverwrite == <<"#", "i", "n", "p", "u", "t", "M", "o", "d", "e", " ", "o", "v", "e", "r", "w", "r", "i", "t", "e", " ">>
\* #inputMode error
ModeError == <<"#", "i", "n", "p", "u", "t", "M", "o", "d", "e", " ", "e", "r", "r", "o", "r", " ">>
\* "a.*" 1;
PatternA == <<"\"", "a", ".", "*", "\"", " ", "1", ";">>
\* ".b*" 2;
PatternB == <<"\"", ".", "b", "*", "\"", " ", "2", ";">>

EntryPieces == {EntryA1, EntryA2, EntryANone, DictAB, DictABC, DictABD}

DictPieces == EntryPieces \cup {SubstA, DictBSubstA, DictASubstA, DictAA, PatternA, PatternB}

\* What a file may begin with: nothing or an #inputMode
ModePieces == {<<>>, <<ModeOverwrite>>, <<ModeError>>}

\* Most pieces a dictionary file is made of, after its #inputMode
MaxDictPieces == 2

\* a 0();  a nonuniform 0();  a nonuniform List<scalar> 0();  a List<label> 0();
ZeroListEntry(prefix) == <<"a", " ">> \o prefix \o <<"0", "(", ")", ";">>

\* a 1(2);  a nonuniform List<scalar> 1(2);  a List<label> 1(2);
OneListEntry(prefix) == <<"a", " ">> \o prefix \o <<"1", "(", "2", ")", ";">>

NoTag == <<>>
Nonuniform == WordNonuniform \o <<" ">>
ListTag(type) == WordList(type) \o <<" ">>

\* What may stand before the size of a list
ListPrefixes ==
  {NoTag, Nonuniform, ListTag(WordScalar), ListTag(WordLabel),
   Nonuniform \o ListTag(WordScalar), Nonuniform \o ListTag(WordLabel)}

ListPieces ==
  {ZeroListEntry(prefix) : prefix \in ListPrefixes} \cup {OneListEntry(prefix) : prefix \in ListPrefixes}

DictFiles ==
  {mode \o pieces : mode \in ModePieces, pieces \in SeqsUpTo(DictPieces, MaxDictPieces)}
    \cup {<<piece>> : piece \in ListPieces}

\* The keywords looked up
LookupKeywords == {<<"a">>, <<"b">>, <<"a", "b">>, <<"a", "b", "b">>}

NoDictResult == DictDone("none", ClosedStream, "", NewDict)

NoLookup == [keyword |-> <<>>, regex |-> FALSE, index |-> 0]

DictInit ==
  /\ dictInput = <<>>
  /\ dictResult = NoDictResult
  /\ dictLookup = NoLookup
  /\ dictState = "idle"

\* A new vtkFoamIOobject opens a file and a new vtkFoamDict reads it
ReadDictFile ==
  /\ dictState = "idle"
  /\ \E pieces \in DictFiles :
       /\ dictInput' = pieces
       /\ dictResult' = ReadFile(Flatten(pieces), INPUT_MODE_MERGE)
  /\ dictState' = "read"
  /\ UNCHANGED dictLookup
  /\ UNCHANGED notDict

\* Lookup(keyword, regex) in the dictionary that was read
LookupEntry ==
  /\ dictState \in {"read", "looked"}
  /\ dictResult.res = "true"
  /\ \E keyword \in LookupKeywords, regex \in BOOLEAN :
       dictLookup' = [keyword |-> keyword, regex |-> regex,
                      index |-> Lookup(dictResult.dict, keyword, regex)]
  /\ dictState' = "looked"
  /\ UNCHANGED <<dictInput, dictResult>>
  /\ UNCHANGED notDict

\* The dictionary and the vtkFoamIOobject are destroyed
DeleteDict ==
  /\ dictState # "idle"
  /\ dictInput' = <<>>
  /\ dictResult' = NoDictResult
  /\ dictLookup' = NoLookup
  /\ dictState' = "idle"
  /\ UNCHANGED notDict

DictNext == ReadDictFile \/ LookupEntry \/ DeleteDict

----------------------------------------------------------------------------
(* Getc and PutBack, character by character *)

\* A file of n characters
CharsOf(alphabet, n) == [i \in 1..n |-> alphabet[(i % Len(alphabet)) + 1]]

\* The lengths of the files read: empty, one character, a buffer full, one
\* more, and more than two buffers full
BufLengths ==
  {0, 1, VTK_FOAMFILE_OUTBUFSIZE, VTK_FOAMFILE_OUTBUFSIZE + 1, 2 * VTK_FOAMFILE_OUTBUFSIZE + 1}

BufContents == {CharsOf(<<"a", "b", "c">>, n) : n \in BufLengths}

BufIncluded == {CharsOf(<<"x", "y">>, n) : n \in {0, 1, VTK_FOAMFILE_OUTBUFSIZE + 1}}

\* Most files suspended at a time while characters are read one by one
MaxIncludes == 1

BufInit ==
  /\ bufStream = ClosedStream
  /\ bufChar = EOF
  /\ bufGot = ClosedStream
  /\ bufHow = "none"
  /\ bufState = "closed"

\* Open(fileName)
BufOpen ==
  /\ bufState = "closed"
  /\ \E contents \in BufContents : bufStream' = OpenedStream(contents, INPUT_MODE_MERGE)
  /\ bufState' = "open"
  /\ UNCHANGED <<bufChar, bufGot, bufHow>>
  /\ UNCHANGED notBuf

\* Where Getc takes its character from
HowOf(st) ==
  IF st.ptr <= Len(st.data) THEN "buffer"
  ELSE IF st.rest # <<>> THEN IF Len(st.data) = 1 THEN "opened" ELSE "refilled"
  ELSE IF st.stack # <<>> THEN "resumed"
  ELSE "end"

\* c = Getc()
BufGetc ==
  /\ bufState \in {"open", "got", "eof", "putback"}
  /\ bufStream' = Getc(bufStream).st
  /\ bufChar' = Getc(bufStream).c
  /\ bufGot' = Getc(bufStream).st
  /\ bufHow' = HowOf(bufStream)
  /\ bufState' = IF Getc(bufStream).c = EOF THEN "eof" ELSE "got"
  /\ UNCHANGED notBuf

\* PutBack(c), of the character the Getc before it returned
BufPutBack ==
  /\ bufState = "got"
  /\ bufStream' = PutBack(bufStream, bufChar).st
  /\ bufState' = IF PutBack(bufStream, bufChar).err # "" THEN "failed" ELSE "putback"
  /\ UNCHANGED <<bufChar, bufGot, bufHow>>
  /\ UNCHANGED notBuf

\* IncludeFile(name), as Read does once it has read the directive
BufInclude ==
  /\ bufState \in {"got", "putback"}
  /\ Len(bufStream.stack) < MaxIncludes
  /\ \E contents \in BufIncluded :
       bufStream' = IncludeFile(bufStream, IncludableName, contents).st
  /\ bufState' = "open"
  /\ UNCHANGED <<bufChar, bufGot, bufHow>>
  /\ UNCHANGED notBuf

\* Close()
BufClose ==
  /\ bufState # "closed"
  /\ bufStream' = ClosedStream
  /\ bufChar' = EOF
  /\ bufGot' = ClosedStream
  /\ bufHow' = "none"
  /\ bufState' = "closed"
  /\ UNCHANGED notBuf

BufNext == BufOpen \/ BufGetc \/ BufPutBack \/ BufInclude \/ BufClose

----------------------------------------------------------------------------
(* Numeric literals: Read, ReadIntValue, ReadFloatValue *)

\* The parts a literal is written with, each with what it stands for
Signs == {<<>>, <<"+">>, <<"-">>}

IntParts ==
  {[text |-> <<>>, value |-> 0], [text |-> <<"0">>, value |-> 0],
   [text |-> <<"7">>, value |-> 7], [text |-> <<"1", "2">>, value |-> 12],
   [text |-> <<"1", "0">>, value |-> 10]}

\* value / 10^places
FracParts ==
  {[text |-> <<>>, value |-> 0, places |-> 0], [text |-> <<".">>, value |-> 0, places |-> 0],
   [text |-> <<".", "5">>, value |-> 5, places |-> 1],
   [text |-> <<".", "0", "5">>, value |-> 5, places |-> 2],
   [text |-> <<".", "5", "0">>, value |-> 50, places |-> 2]}

ExpParts ==
  {[text |-> <<>>, value |-> 0], [text |-> <<"e", "2">>, value |-> 2],
   [text |-> <<"E", "+", "2">>, value |-> 2], [text |-> <<"e", "-", "2">>, value |-> -2],
   [text |-> <<"e", "8", "5">>, value |-> 85]}

\* What follows the literal in the file; <<>>: nothing, the file ends
Terminators == {<<";">>, <<" ">>, <<")">>, <<>>}

\* A literal has a digit
Literals ==
  {lit \in [sign : Signs, int : IntParts, frac : FracParts, exp : ExpParts, term : Terminators] :
     lit.int.text # <<>> \/ lit.frac.places > 0}

NoLiteral == [sign |-> <<>>, int |-> [text |-> <<>>, value |-> 0],
              frac |-> [text |-> <<>>, value |-> 0, places |-> 0],
              exp |-> [text |-> <<>>, value |-> 0], term |-> <<>>]

Unsigned(lit) == lit.int.text \o lit.frac.text \o lit.exp.text

Written(lit) == lit.sign \o Unsigned(lit) \o lit.term

NumResult(op, res, type, int, value, rest) ==
  [op |-> op, res |-> res, type |-> type, int |-> int, value |-> value, rest |-> rest]

NoNumResult == NumResult("none", "none", "UNDEFINED", 0, Normal(0, 0), <<>>)

NumInit ==
  /\ numInput = NoLiteral
  /\ numResult = NoNumResult
  /\ numState = "closed"

\* Open(fileName), of a file that holds a literal
NumOpen ==
  /\ numState = "closed"
  /\ numInput' \in Literals
  /\ numState' = "open"
  /\ UNCHANGED numResult
  /\ UNCHANGED notNum

\* Read(token), then ToInt and ToDouble of the token
TokenResult(r) ==
  NumResult("Read", r.res, r.token.type,
            IF r.token.type = "LABEL" THEN ToInt(r.token) ELSE 0,
            ToDouble(r.token), Remaining(r.st))

NumRead ==
  /\ numState = "open"
  /\ numResult' = TokenResult(Read(OpenedStream(Written(numInput), INPUT_MODE_MERGE),
                                   <<>>, "garbage"))
  /\ numState' = "read"
  /\ UNCHANGED numInput
  /\ UNCHANGED notNum

\* ReadIntValue()
IntResult(r) ==
  NumResult("ReadIntValue", r.res, "LABEL", r.value, Normal(r.value, 0), Remaining(r.st))

NumReadInt ==
  /\ numState = "open"
  /\ numResult' = IntResult(ReadIntValue(OpenedStream(Written(numInput), INPUT_MODE_MERGE)))
  /\ numState' = "read"
  /\ UNCHANGED numInput
  /\ UNCHANGED notNum

\* ReadFloatValue()
FloatResult(r) ==
  NumResult("ReadFloatValue", r.res, "SCALAR", 0,
            IF r.res = "true" THEN r.value ELSE Normal(0, 0), Remaining(r.st))

NumReadFloat ==
  /\ numState = "open"
  /\ numResult' = FloatResult(ReadFloatValue(OpenedStream(Written(numInput), INPUT_MODE_MERGE)))
  /\ numState' = "read"
  /\ UNCHANGED numInput
  /\ UNCHANGED notNum

\* Close()
NumClose ==
  /\ numState # "closed"
  /\ numInput' = NoLiteral
  /\ numResult' = NoNumResult
  /\ numState' = "closed"
  /\ UNCHANGED notNum

NumNext == NumOpen \/ NumRead \/ NumReadInt \/ NumReadFloat \/ NumClose

----------------------------------------------------------------------------
(* The boundary loop of vtkOpenFOAMReaderPrivate::GetVolFieldAtTimeStep      *)

RECURSIVE FileTuples(_, _)
FileTuples(n, nComponents) ==
  IF n = 0 THEN <<>>
  ELSE FileTuples(n - 1, nComponents) \o [c \in 1 .. nComponents |-> 10 * n + c]

FieldValues ==
  {FoamValue(TRUE, "SCALAR", 1, <<7>>),
   FoamValue(TRUE, "LABELLIST", 1, <<1, 2, 3, 4, 5, 6>>),
   FoamValue(TRUE, "SCALARLIST", 1, <<1, 2, 3, 4, 5, 6>>),
   FoamValue(TRUE, "SCALARLIST", 1, <<1, 2, 3>>),
   FoamValue(TRUE, "STRING", 1, <<>>),
   FoamValue(FALSE, "SCALARLIST", 1, <<7>>),
   FoamValue(FALSE, "VECTORLIST", 3, <<1, 2, 3>>),
   FoamValue(FALSE, "EMPTYLIST", 1, <<>>)}
  \cup {FoamValue(FALSE, "VECTORLIST", 6, FileTuples(n, 6)) : n \in 1 .. MaxPatchFaces}

FieldKeywords == {<<"a">>, <<"b">>, <<".", "*">>}

FieldEntries == {[Keyword |-> k, value |-> v] : k \in FieldKeywords, v \in FieldValues}

FieldDicts ==
  UNION {[1 .. n -> FieldEntries] : n \in 1 .. MaxFieldEntries}

PatchNames == <<<<"a">>, <<"b">>, <<"a", "b">>>>

FieldPatchLists ==
  UNION {{[i \in 1 .. n |-> [name_ |-> PatchNames[i], size_ |-> sizes[i]]] :
            sizes \in [1 .. n -> 0 .. MaxPatchFaces]} : n \in 1 .. MaxFieldPatches}

FldInit ==
  /\ fldFile = <<>>
  /\ fldDict = <<>>
  /\ fldPatches = <<>>
  /\ fldType = SCALAR_TYPE
  /\ fldPatchi = 0
  /\ fldData = <<>>
  /\ fldState = "idle"

\* GetVolFieldAtTimeStep up to the patch loop: the field file is read
FieldBegin ==
  /\ UNCHANGED notFld
  /\ fldState = "idle"
  /\ \E d \in FieldDicts, p \in FieldPatchLists,
        t \in {SCALAR_TYPE, VECTOR_TYPE, SYMM_TENSOR_TYPE} :
       /\ fldFile' = d
       /\ fldDict' = d
       /\ fldPatches' = p
       /\ fldType' = t
  /\ fldPatchi' = 0
  /\ fldData' = <<>>
  /\ fldState' = "loop"

\* the arrays of earlier patches that are the array of entry e follow it
Shared(data, e, list) ==
  [q \in 1 .. Len(data) |->
     IF data[q].entry = e /\ data[q].shared THEN [data[q] EXCEPT !.values = list] ELSE data[q]]

PatchFilled(e, f) ==
  IF f.data.null
  THEN /\ fldState' = "failed"
       /\ UNCHANGED <<fldDict, fldPatchi, fldData>>
  ELSE /\ fldDict' = [fldDict EXCEPT ![e].value = f.entry]
       /\ fldData' = Append(IF f.data.shared THEN Shared(fldData, e, f.data.values) ELSE fldData,
                            [entry |-> e, uniform |-> f.entry.uniform, type |-> f.entry.type,
                             nFaces |-> fldPatches[fldPatchi + 1].size_,
                             nComponents |-> f.data.nComponents, values |-> f.data.values,
                             shared |-> f.data.shared])
       /\ fldPatchi' = fldPatchi + 1
       /\ fldState' = IF fldPatchi + 1 = Len(fldPatches) THEN "done" ELSE "loop"

PatchLookedUp(e) ==
  IF e = 0
  THEN /\ fldState' = "failed"
       /\ UNCHANGED <<fldDict, fldPatchi, fldData>>
  ELSE PatchFilled(e, FillField(fldDict[e].value, fldPatches[fldPatchi + 1].size_, fldType))

\* one turn of the patch loop, for a patch whose dictionary has a "value"
\* entry; every patch is active
FieldPatch ==
  /\ UNCHANGED notFld
  /\ fldState = "loop"
  /\ fldPatchi < Len(fldPatches)
  /\ PatchLookedUp(LookupFrom(fldDict, fldPatches[fldPatchi + 1].name_, TRUE, 1, 0))
  /\ UNCHANGED <<fldFile, fldPatches, fldType>>

\* the reader is asked for another field
FieldClear ==
  /\ UNCHANGED notFld
  /\ fldState \in {"done", "failed"}
  /\ fldFile' = <<>>
  /\ fldDict' = <<>>
  /\ fldPatches' = <<>>
  /\ fldType' = SCALAR_TYPE
  /\ fldPatchi' = 0
  /\ fldData' = <<>>
  /\ fldState' = "idle"

FldNext == FieldBegin \/ FieldPatch \/ FieldClear

----------------------------------------------------------------------------
(* The zones of vtkOpenFOAMReaderPrivate::RequestData                      *)

\* Bounds
MaxZones == 2

\* the numbers of points, faces and cells of the meshes and the lengths of
\* the label lists of the zones: a list as long as the larger mesh and one
\* longer than both
ZoneMeshSizes == {1, 2}
ZoneListSizes == {2, 3}

\* the entry cellLabels, faceLabels or pointLabels of a zone: absent, or the
\* type of its first value and the number of labels of a list
NoLabels == [type |-> "none", nLabels |-> 0, value |-> 0]
ZoneLabelEntries ==
  {NoLabels,
   [type |-> "EMPTYLIST", nLabels |-> 0, value |-> 0],
   [type |-> "LABEL", nLabels |-> 0, value |-> 0],
   [type |-> "LABEL", nLabels |-> 0, value |-> 1]}
  \cup {[type |-> "LABELLIST", nLabels |-> n, value |-> 0] : n \in ZoneListSizes}

\* the zones of a file, their keywords in the order of the file; NoZones is
\* the nullptr of GatherBlocks (the file is missing or not a dictionary)
ZoneKeywords == <<"zoneA", "zoneB", "zoneC", "zoneD">>
ZoneDict(entries) == [zonei \in 1 .. Len(entries) |-> [keyword |-> ZoneKeywords[zonei], labels |-> entries[zonei]]]
NoZones == [nullptr |-> TRUE, zones |-> <<>>]
ZonesFiles == {NoZones} \cup {[nullptr |-> FALSE, zones |-> ZoneDict(e)] : e \in SeqsUpTo(ZoneLabelEntries, MaxZones)}

\* the empty mesh of an empty list and the mesh of nLabels cells
ZoneBlock(zoneName, nLabels) == [name |-> zoneName, cells |-> nLabels]

\* `nLabels > maxLabels` of the three functions, as the condition to go on
LabelsFitMutant(nLabels, maxLabels) == TRUE
LabelsFit(nLabels, maxLabels) == ~(nLabels > maxLabels)

\* the loop over the zones that is the body of GetPointZoneMesh,
\* GetFaceZoneMesh and GetCellZoneMesh: the blocks set so far, and whether an
\* error stopped the loop
RECURSIVE ZoneLoop(_, _, _, _)
ZoneLoop(zones, maxLabels, zonei, blocks) ==
  IF zonei > Len(zones) THEN [ok |-> TRUE, blocks |-> blocks]
  ELSE IF zones[zonei].labels.type = "none" THEN [ok |-> FALSE, blocks |-> blocks]
  ELSE IF \/ zones[zonei].labels.type = "EMPTYLIST"
          \/ (zones[zonei].labels.type = "LABEL" /\ zones[zonei].labels.value = 0)
       THEN ZoneLoop(zones, maxLabels, zonei + 1, Append(blocks, ZoneBlock(zones[zonei].keyword, 0)))
  ELSE IF zones[zonei].labels.type # "LABELLIST" THEN [ok |-> FALSE, blocks |-> blocks]
  ELSE IF ~LabelsFit(zones[zonei].labels.nLabels, maxLabels) THEN [ok |-> FALSE, blocks |-> blocks]
  ELSE ZoneLoop(zones, maxLabels, zonei + 1,
                Append(blocks, ZoneBlock(zones[zonei].keyword, zones[zonei].labels.nLabels)))

GetZoneMesh(file, maxLabels) ==
  IF file.nullptr THEN [ok |-> TRUE, blocks |-> <<>>]
  ELSE ZoneLoop(file.zones, maxLabels, 1, <<>>)

\* a vtkMultiBlockDataSet member of the reader
NoBlocks == [nullptr |-> TRUE, blocks |-> <<>>]
MultiBlock(blocks) == [nullptr |-> FALSE, blocks |-> blocks]
\* "if (GetNumberOfBlocks() == 0) { Delete(); = nullptr; }"
NonEmpty(blocks) == IF Len(blocks) = 0 THEN NoBlocks ELSE MultiBlock(blocks)

\* the zones file the call read last, under its name
Unread == [name |-> "none", nullptr |-> TRUE, zones |-> <<>>]
ZoneFile(name, file) == [name |-> name, nullptr |-> file.nullptr, zones |-> file.zones]

\* the blocks ClearZoneMeshes deletes: those of the zone meshes of the
\* reader, the one being filled included
NumberOfBlocks(r) == Len(r.PointZoneMesh.blocks) + Len(r.FaceZoneMesh.blocks) + Len(r.CellZoneMesh.blocks)

ZnInit ==
  /\ zn = [state |-> "idle", NumPoints |-> 0, NumFaces |-> 0, NumCells |-> 0,
           ReadZones |-> FALSE,
           InternalMesh |-> "nullptr", BoundaryMesh |-> "nullptr",
           PointZoneMesh |-> NoBlocks, FaceZoneMesh |-> NoBlocks, CellZoneMesh |-> NoBlocks,
           output |-> <<>>, errors |-> 0, deleted |-> 0, ret |-> 1]
  /\ znFile = Unread

\* RequestData with recreateInternalMesh, up to "Read and construct zones":
\* the meshes are cleared, the mesh files read and the internal mesh made
\* if it is selected
ZoneRequest ==
  /\ zn.state = "idle"
  /\ \E selected \in BOOLEAN : \E ReadZones \in BOOLEAN :
     \E n \in ZoneMeshSizes :
       zn' = [state |-> IF ReadZones THEN "pointZones" ELSE "boundary",
              NumPoints |-> n, NumFaces |-> n, NumCells |-> n,
              ReadZones |-> ReadZones,
              InternalMesh |-> IF selected THEN "mesh" ELSE "nullptr", BoundaryMesh |-> "nullptr",
              PointZoneMesh |-> NoBlocks, FaceZoneMesh |-> NoBlocks, CellZoneMesh |-> NoBlocks,
              output |-> <<>>, errors |-> 0, deleted |-> 0, ret |-> 1]
  /\ znFile' = Unread
  /\ UNCHANGED notZn

\* "this->ClearZoneMeshes(); ... return 0;" after a Get...ZoneMesh that
\* returned false, which has called vtkErrorMacro once
ZoneFailed(r) ==
  [r EXCEPT !.state = "returned", !.ret = 0, !.errors = r.errors + 1,
            !.deleted = NumberOfBlocks(r),
            !.PointZoneMesh = NoBlocks, !.FaceZoneMesh = NoBlocks, !.CellZoneMesh = NoBlocks]

ZonePoints ==
  /\ zn.state = "pointZones"
  /\ \E file \in ZonesFiles :
       /\ znFile' = ZoneFile("pointZones", file)
       /\ zn' = IF GetZoneMesh(file, zn.NumPoints).ok
                THEN [zn EXCEPT !.state = "faceZones",
                                !.PointZoneMesh = NonEmpty(GetZoneMesh(file, zn.NumPoints).blocks)]
                ELSE ZoneFailed([zn EXCEPT !.PointZoneMesh = MultiBlock(GetZoneMesh(file, zn.NumPoints).blocks)])
  /\ UNCHANGED notZn

ZoneFaces ==
  /\ zn.state = "faceZones"
  /\ \E file \in ZonesFiles :
       /\ znFile' = ZoneFile("faceZones", file)
       /\ zn' = IF GetZoneMesh(file, zn.NumFaces).ok
                THEN [zn EXCEPT !.state = "cellZones",
                                !.FaceZoneMesh = NonEmpty(GetZoneMesh(file, zn.NumFaces).blocks)]
                ELSE ZoneFailed([zn EXCEPT !.FaceZoneMesh = MultiBlock(GetZoneMesh(file, zn.NumFaces).blocks)])
  /\ UNCHANGED notZn

ZoneCells ==
  /\ zn.state = "cellZones"
  /\ \E file \in ZonesFiles :
       /\ znFile' = ZoneFile("cellZones", file)
       /\ zn' = IF GetZoneMesh(file, zn.NumCells).ok
                THEN [zn EXCEPT !.state = "boundary",
                                !.CellZoneMesh = NonEmpty(GetZoneMesh(file, zn.NumCells).blocks)]
                ELSE ZoneFailed([zn EXCEPT !.CellZoneMesh = MultiBlock(GetZoneMesh(file, zn.NumCells).blocks)])
  /\ UNCHANGED notZn

\* the blocks "zones" of the output
ZonesOutput(r) ==
  (IF r.CellZoneMesh.nullptr THEN <<>> ELSE <<[name |-> "cellZones", blocks |-> r.CellZoneMesh.blocks]>>)
  \o (IF r.FaceZoneMesh.nullptr THEN <<>> ELSE <<[name |-> "faceZones", blocks |-> r.FaceZoneMesh.blocks]>>)
  \o (IF r.PointZoneMesh.nullptr THEN <<>> ELSE <<[name |-> "pointZones", blocks |-> r.PointZoneMesh.blocks]>>)

\* "Add Internal mesh to final output", "Set boundary meshes/data as output",
\* "Set zone meshes as output"
Output(r) ==
  (IF r.InternalMesh = "nullptr" THEN <<>> ELSE <<[name |-> "internalMesh", blocks |-> <<>>]>>)
  \o (IF r.BoundaryMesh = "nullptr" THEN <<>> ELSE <<[name |-> "boundary", blocks |-> <<>>]>>)
  \o (IF r.ReadZones /\ ZonesOutput(r) # <<>> THEN <<[name |-> "zones", blocks |-> ZonesOutput(r)]>> ELSE <<>>)

\* the rest of RequestData: MakeBoundaryMesh, which returns nullptr for a
\* boundary it cannot build, and the blocks of the output
ZoneBoundary ==
  /\ zn.state = "boundary"
  /\ \E boundaryOk \in BOOLEAN :
       zn' = IF boundaryOk
             THEN [zn EXCEPT !.state = "returned", !.BoundaryMesh = "mesh",
                             !.output = Output([zn EXCEPT !.BoundaryMesh = "mesh"])]
             ELSE [zn EXCEPT !.state = "returned", !.ret = 0, !.errors = zn.errors + 1]
  /\ UNCHANGED <<znFile, notZn>>

\* the caller has the result; the next request
ZoneClear ==
  /\ zn.state = "returned"
  /\ zn' = [zn EXCEPT !.state = "idle"]
  /\ UNCHANGED <<znFile, notZn>>

ZnNext == ZoneRequest \/ ZonePoints \/ ZoneFaces \/ ZoneCells \/ ZoneBoundary \/ ZoneClear

----------------------------------------------------------------------------
(* vtkSMPToolsImplForOpenMP: the parallel For over [first, last)           *)

\* Bounds
MaxLast == 5
MaxGrain == 2
MaxSMPThreads == 2

\* the indexes a chunk can reach
SMPIndexes == 0 .. MaxLast + MaxGrain + 1

\* the division of C++, which truncates toward zero
TruncDiv(a, b) == IF a >= 0 THEN a \div b ELSE -((-a) \div b)

\* "if (grain <= 0) { estimateGrain = ...; grain = (estimateGrain > 0) ? estimateGrain : 1; }"
EstimateGrain(first, last, nThreads) == TruncDiv(last - first, nThreads * 4)
GrainOfMutant(first, last, grain, nThreads) == grain
GrainOf(first, last, grain, nThreads) ==
  IF grain <= 0
  THEN IF EstimateGrain(first, last, nThreads) > 0 THEN EstimateGrain(first, last, nThreads) ELSE 1
  ELSE grain

\* the functor executer of the OpenMP backend, called as
\* functorExecuter(functor, from, grain, last): it runs the functor on
\* [from, min(from + grain, last))
ChunkEndMutant(from, grain, last) == from + grain
ChunkEnd(from, grain, last) == IF from + grain < last THEN from + grain ELSE last

NoChunk == [busy |-> FALSE, from |-> 0, to |-> 0]

SmpInit ==
  /\ smpArgs = [first |-> 0, last |-> 0, grain |-> 1, nThreads |-> 1]
  /\ smpFrom = 0
  /\ smpPending = {}
  /\ smpThreads = [t \in 1 .. MaxSMPThreads |-> NoChunk]
  /\ smpCount = [i \in SMPIndexes |-> 0]
  /\ smpState = "idle"

\* vtkSMPToolsAPI::For with the OpenMP backend activated: the call of
\* vtkSMPToolsImplForOpenMP up to the parallel loop
For ==
  /\ smpState = "idle"
  /\ \E first \in 0 .. 1 : \E last \in 0 .. MaxLast : \E grain \in -1 .. MaxGrain :
     \E nThreads \in 1 .. MaxSMPThreads :
       /\ smpArgs' = [first |-> first, last |-> last,
                      grain |-> GrainOf(first, last, grain, nThreads), nThreads |-> nThreads]
       /\ smpFrom' = first
  /\ smpPending' = {}
  /\ smpThreads' = [t \in 1 .. MaxSMPThreads |-> NoChunk]
  /\ smpCount' = [i \in SMPIndexes |-> 0]
  /\ smpState' = "loop"
  /\ UNCHANGED notSmp

\* "for (from = first; from < last; from += grain)": one iteration of the
\* loop is handed to the OpenMP runtime
Iteration ==
  /\ smpState = "loop"
  /\ smpFrom < smpArgs.last
  /\ smpPending' = smpPending \cup {smpFrom}
  /\ smpFrom' = smpFrom + smpArgs.grain
  /\ UNCHANGED <<smpArgs, smpThreads, smpCount, smpState, notSmp>>

\* a thread of the team takes an iteration, whichever the schedule gives it
TakeChunk(t) ==
  /\ smpState = "loop"
  /\ t <= smpArgs.nThreads
  /\ ~smpThreads[t].busy
  /\ \E from \in smpPending :
       /\ smpPending' = smpPending \ {from}
       /\ smpThreads' = [smpThreads EXCEPT ![t] =
                           [busy |-> TRUE, from |-> from, to |-> ChunkEnd(from, smpArgs.grain, smpArgs.last)]]
  /\ UNCHANGED <<smpArgs, smpFrom, smpCount, smpState, notSmp>>

\* the body of the loop: the functor processes the indexes of the chunk
Execute(t) ==
  /\ smpState = "loop"
  /\ smpThreads[t].busy
  /\ smpCount' = [i \in SMPIndexes |->
                    IF smpThreads[t].from <= i /\ i < smpThreads[t].to THEN smpCount[i] + 1 ELSE smpCount[i]]
  /\ smpThreads' = [smpThreads EXCEPT ![t] = NoChunk]
  /\ UNCHANGED <<smpArgs, smpFrom, smpPending, smpState, notSmp>>

\* the end of the parallel region: every iteration has been executed
Join ==
  /\ smpState = "loop"
  /\ ~(smpFrom < smpArgs.last)
  /\ smpPending = {}
  /\ \A t \in 1 .. MaxSMPThreads : ~smpThreads[t].busy
  /\ smpState' = "returned"
  /\ UNCHANGED <<smpArgs, smpFrom, smpPending, smpThreads, smpCount, notSmp>>

\* the caller goes on to its next For
SMPReturn ==
  /\ smpState = "returned"
  /\ smpState' = "idle"
  /\ UNCHANGED <<smpArgs, smpFrom, smpPending, smpThreads, smpCount, notSmp>>

SmpNext ==
  \/ For
  \/ Iteration
  \/ \E t \in 1 .. MaxSMPThreads : TakeChunk(t)
  \/ \E t \in 1 .. MaxSMPThreads : Execute(t)
  \/ Join
  \/ SMPReturn

----------------------------------------------------------------------------
(* RunThreads of TestThreadedCallbackQueue and vtkThreadedCallbackQueue    *)

\* Bounds: N of RunThreads and the largest number of threads
MaxJobs == 4
MaxWorkers == 2

Jobs == 0 .. MaxJobs - 1
Workers == 1 .. MaxWorkers

\* a worker thread: not running ("off"), between two jobs ("pop"), or
\* running the job it has popped
Off == [at |-> "off", job |-> 0]
AtPop == [at |-> "pop", job |-> 0]
Invoking(job) == [at |-> "invoke", job |-> job]

\* vtkThreadedCallbackQueue::Start: nothing if the queue is running, else
\* NumberOfThreads workers are started
Start(qu) ==
  IF qu.Running THEN qu
  ELSE [qu EXCEPT !.Running = TRUE,
                  !.Threads = [t \in Workers |-> IF t <= qu.NumberOfThreads THEN AtPop ELSE qu.Threads[t]]]

\* vtkThreadedCallbackQueue::Stop, up to the join of the workers
Stop(qu) == [qu EXCEPT !.Running = FALSE]

\* vtkThreadedCallbackQueue::SetNumberOfThreads, up to the join of the
\* workers given up: a running queue starts the workers added
SetNumberOfThreads(qu, n) ==
  [qu EXCEPT !.NumberOfThreads = n,
             !.Threads = [t \in Workers |->
                            IF qu.Running /\ qu.NumberOfThreads < t /\ t <= n /\ qu.Threads[t] = Off
                            THEN AtPop ELSE qu.Threads[t]]]

\* vtkThreadedCallbackQueue::Push
PushJob(qu, job) == [qu EXCEPT !.InvokerQueue = Append(qu.InvokerQueue, job)]

\* the workers the queue waits for in Stop and in SetNumberOfThreads have
\* returned
Joined(qu) == \A t \in Workers : qu.Threads[t] # Off => qu.Running /\ t <= qu.NumberOfThreads

NewQueue == [InvokerQueue |-> <<>>, Running |-> FALSE, NumberOfThreads |-> 1, Threads |-> [t \in Workers |-> Off]]

QInit ==
  /\ queue = NewQueue
  /\ test = [at |-> "idle", i |-> 0, nthreadsEnd |-> 1, count |-> 0]
  /\ ran = [job \in Jobs |-> 0]

\* RunThreads(nthreadsBegin, nthreadsEnd) up to the loop: a new queue,
\* SetNumberOfThreads(nthreadsBegin), Start()
RunThreads ==
  /\ test.at = "idle"
  /\ \E nthreadsBegin \in Workers : \E nthreadsEnd \in Workers \ {nthreadsBegin} :
       /\ queue' = Start(SetNumberOfThreads(NewQueue, nthreadsBegin))
       /\ test' = [at |-> "loop", i |-> 0, nthreadsEnd |-> nthreadsEnd, count |-> 0]
  /\ ran' = [job \in Jobs |-> 0]
  /\ UNCHANGED notQ

\* the head of the loop body: "if (i == N / 2) Start(); if (i == N / 4) Stop();"
StartAtMutant(N) == N
StartAt(N) == N \div 2
StopAt(N) == N \div 4

LoopHead ==
  /\ test.at = "loop"
  /\ test.i < MaxJobs
  /\ queue' = IF test.i = StopAt(MaxJobs)
              THEN Stop(IF test.i = StartAt(MaxJobs) THEN Start(queue) ELSE queue)
              ELSE IF test.i = StartAt(MaxJobs) THEN Start(queue) ELSE queue
  /\ test' = [test EXCEPT !.at = IF test.i = StopAt(MaxJobs) THEN "stop" ELSE "push"]
  /\ UNCHANGED <<ran, notQ>>

\* Stop() returns when the workers have
StopReturned ==
  /\ test.at = "stop"
  /\ Joined(queue)
  /\ test' = [test EXCEPT !.at = "push"]
  /\ UNCHANGED <<queue, ran, notQ>>

\* "queue->Push(..., i, ...)" and "++i"
Push ==
  /\ test.at = "push"
  /\ queue' = PushJob(queue, test.i)
  /\ test' = [test EXCEPT !.at = "loop", !.i = test.i + 1]
  /\ UNCHANGED <<ran, notQ>>

\* "queue->SetNumberOfThreads(nthreadsEnd);" after the loop
Resize ==
  /\ test.at = "loop"
  /\ test.i = MaxJobs
  /\ queue' = SetNumberOfThreads(queue, test.nthreadsEnd)
  /\ test' = [test EXCEPT !.at = "resize"]
  /\ UNCHANGED <<ran, notQ>>

ResizeReturned ==
  /\ test.at = "resize"
  /\ Joined(queue)
  /\ test' = [test EXCEPT !.at = "spin"]
  /\ UNCHANGED <<queue, ran, notQ>>

\* "while (count != N) ;" is left
Spun ==
  /\ test.at = "spin"
  /\ test.count = MaxJobs
  /\ test' = [test EXCEPT !.at = "returned"]
  /\ UNCHANGED <<queue, ran, notQ>>

\* a worker between two jobs returns if the queue is stopped or the worker
\* has been given up, and else pops the first job, if there is one
Pop(t) ==
  /\ queue.Threads[t] = AtPop
  /\ IF ~queue.Running \/ t > queue.NumberOfThreads
     THEN queue' = [queue EXCEPT !.Threads[t] = Off]
     ELSE /\ queue.InvokerQueue # <<>>
          /\ queue' = [queue EXCEPT !.Threads[t] = Invoking(Head(queue.InvokerQueue)),
                                    !.InvokerQueue = Tail(queue.InvokerQueue)]
  /\ UNCHANGED <<test, ran, notQ>>

\* the worker runs the job: the lambda of RunThreads, "++count"
Invoke(t) ==
  /\ queue.Threads[t].at = "invoke"
  /\ ran' = [ran EXCEPT ![queue.Threads[t].job] = ran[queue.Threads[t].job] + 1]
  /\ test' = [test EXCEPT !.count = test.count + 1]
  /\ queue' = [queue EXCEPT !.Threads[t] = AtPop]
  /\ UNCHANGED notQ

\* RunThreads returns and the queue is destroyed; the next RunThreads
QReturn ==
  /\ test.at = "returned"
  /\ queue' = NewQueue
  /\ test' = [at |-> "idle", i |-> 0, nthreadsEnd |-> 1, count |-> 0]
  /\ ran' = [job \in Jobs |-> 0]
  /\ UNCHANGED notQ

QNext ==
  \/ RunThreads
  \/ LoopHead
  \/ StopReturned
  \/ Push
  \/ Resize
  \/ ResizeReturned
  \/ Spun
  \/ \E t \in Workers : Pop(t)
  \/ \E t \in Workers : Invoke(t)
  \/ QReturn

----------------------------------------------------------------------------
(* Specifications *)

Init == BndInit /\ MeshInit /\ LllInit /\ TokInit /\ InsInit /\ FaceInit /\ VolInit /\ RdInit /\ DictInit /\ BufInit /\ NumInit /\ FldInit /\ ZnInit /\ SmpInit /\ QInit

SpecBoundaries == Init /\ [][BndNext]_vars

SpecMesh == Init /\ [][MeshNext]_vars

SpecLabelListList == Init /\ [][LllNext]_vars

SpecTokenizer == Init /\ [][TokNext]_vars

SpecInsert == Init /\ [][InsNext]_vars

SpecRequestData == Init /\ [][RdNext]_vars

SpecDict == Init /\ [][DictNext]_vars

SpecBuffer == Init /\ [][BufNext]_vars

SpecNumber == Init /\ [][NumNext]_vars

SpecField == Init /\ [][FldNext]_vars

SpecZones == Init /\ [][ZnNext]_vars

SpecSMP == Init /\ [][SmpNext]_vars

SpecQueue == Init /\ [][QNext]_vars

\* the threads of the queue and the thread of the test are scheduled: each
\* goes on when it can
SpecQueueFair ==
  /\ SpecQueue
  /\ WF_vars(RunThreads \/ LoopHead \/ StopReturned \/ Push \/ Resize \/ ResizeReturned \/ Spun \/ QReturn)
  /\ \A t \in Workers : WF_vars(Pop(t) \/ Invoke(t))

\* the threads of the OpenMP team run and the loop goes on: a step of the
\* call that can be taken is taken
SpecSMPFair == SpecSMP /\ WF_vars(SmpNext)

----------------------------------------------------------------------------
(* C1: after a successful update every two consecutive patches are          *)
(* contiguous, p[i].start + p[i].size = p[i+1].start; an entry that leaves  *)
(* a gap or an overlap after its predecessor makes update fail.  The second *)
(* conjunct is the same for the patches accepted so far while the loop      *)
(* runs; the third says a failed update never stored a full patch sequence. *)
C1_BoundaryContiguity ==
  /\ updState = "ok" =>
       \A i \in 1..(Len(patches) - 1) :
         patches[i].start_ + patches[i].size_ = patches[i + 1].start_
  /\ updState = "loop" =>
       /\ \A i \in 1..(patchi - 1) :
            patches[i].start_ + patches[i].size_ = patches[i + 1].start_
       /\ patchi > 0 => endFace = PatchEndFace(patches[patchi])
  /\ updState = "failed" => patchi < nBoundaries

\* Two patches {start 0, size 2} then {start 2, size 1} were accepted
C1_Witness ==
  /\ updState = "ok"
  /\ Len(patches) = 2
  /\ patches[1].start_ = 0 /\ patches[1].size_ = 2
  /\ patches[2].start_ = 2 /\ patches[2].size_ = 1

----------------------------------------------------------------------------
(* Owner/neighbour claims *)

Max(S) == CHOOSE x \in S : \A y \in S : y <= x

\* How often x occurs in the sequence s
Occurrences(s, x) == Cardinality({i \in 1..Len(s) : s[i] = x})

\* All entries of the owner list and of the neighbour list
OwnerNeighbourEntries == Range(FaceOwner) \cup Range(FaceNeigh)

\* Face f has an owner (a neighbour) entry
HasOwnerEntry(f) == f < Len(FaceOwner)
HasNeighbourEntry(f) == f < Len(FaceNeigh)

C4_Original ==
  ownState = "ok" =>
    /\ \A f \in 0..(NumInternalFaces - 1) :
         /\ HasOwnerEntry(f) /\ GetLabelValue(FaceOwner, f) \in 0..(NumCells - 1)
         /\ HasNeighbourEntry(f) /\ GetLabelValue(FaceNeigh, f) \in 0..(NumCells - 1)
    /\ \A f \in NumInternalFaces..(NumFaces - 1) :
         /\ HasOwnerEntry(f) /\ GetLabelValue(FaceOwner, f) \in 0..(NumCells - 1)
         /\ ~HasNeighbourEntry(f)

(* C4, amended: after ReadOwnerNeighbourFiles succeeded, every face in       *)
(* [0, NumInternalFaces) has an owner and a neighbour entry, every face in   *)
(* [NumInternalFaces, NumFaces) has an owner entry and no neighbour entry,   *)
(* and every entry is below NumCells; entries are not checked to be          *)
(* non-negative (a negative entry is accepted and belongs to no cell).       *)
C4_OwnerNeighbourEntries ==
  ownState = "ok" =>
    /\ \A f \in 0..(NumInternalFaces - 1) :
         /\ HasOwnerEntry(f) /\ GetLabelValue(FaceOwner, f) < NumCells
         /\ HasNeighbourEntry(f) /\ GetLabelValue(FaceNeigh, f) < NumCells
    /\ \A f \in NumInternalFaces..(NumFaces - 1) :
         /\ HasOwnerEntry(f) /\ GetLabelValue(FaceOwner, f) < NumCells
         /\ ~HasNeighbourEntry(f)

\* Three faces, one of them internal, with a legacy -1 among the entries
C4_Witness ==
  /\ ownState = "ok"
  /\ NumFaces = 3
  /\ NumInternalFaces = 1
  /\ FaceOwner = <<0, 1, -1>>
  /\ FaceNeigh = <<1>>

\* The faces of cell c according to the owner and the neighbour list
FacesOfCell(c) ==
  {f \in 0..(NumFaces - 1) :
     \/ GetLabelValue(FaceOwner, f) = c
     \/ (f < NumInternalFaces /\ GetLabelValue(FaceNeigh, f) = c)}

\* CreateCellFaces left every write cursor at the next cell's begin offset
\* and no slot of the data array unwritten
ScatterFilledEverySlot ==
  /\ \A c \in 0..(NumCells - 1) : tmpAddr[c + 1] = GetEndOffset(meshCells, c)
  /\ \A k \in 1..Len(meshCells.Data) : meshCells.Data[k] # Unwritten
  /\ Len(meshCells.Data) = GetBeginOffset(meshCells, NumCells)

(* C5, as claimed: the cell-face list holds, for every cell c, exactly the   *)
(* faces f with owner[f] = c or (f < NumInternalFaces and neighbour[f] = c), *)
(* each exactly once; every write cursor ends at the next cell's begin       *)
(* offset and no slot is unwritten.                                          *)
C5_Original ==
  ownState = "ok" =>
    /\ \A c \in 0..(NumCells - 1) :
         /\ Range(GetCell(meshCells, c)) = FacesOfCell(c)
         /\ \A f \in FacesOfCell(c) : Occurrences(GetCell(meshCells, c), f) = 1
    /\ ScatterFilledEverySlot

(* C5, amended: the cell-face list holds, for every cell c, exactly the      *)
(* faces f with owner[f] = c or (f < NumInternalFaces and neighbour[f] = c), *)
(* each once for every one of the two roles it has for c (so twice when c is *)
(* both the owner and the neighbour of f); every write cursor ends at the    *)
(* next cell's begin offset and no slot is unwritten.                        *)
C5_CellFaces ==
  ownState = "ok" =>
    /\ \A c \in 0..(NumCells - 1) :
         /\ Range(GetCell(meshCells, c)) = FacesOfCell(c)
         /\ \A f \in FacesOfCell(c) :
              Occurrences(GetCell(meshCells, c), f) =
                (IF GetLabelValue(FaceOwner, f) = c THEN 1 ELSE 0) +
                (IF f < NumInternalFaces /\ GetLabelValue(FaceNeigh, f) = c THEN 1 ELSE 0)
    /\ ScatterFilledEverySlot

\* Cell 0 owns faces 0 and 2 and is the neighbour of face 1; cell 1 owns
\* face 1 and is the neighbour of face 0
C5_Witness ==
  /\ ownState = "ok"
  /\ FaceOwner = <<0, 1, 0>>
  /\ FaceNeigh = <<1, 0>>
  /\ GetCell(meshCells, 0) = <<0, 1, 2>>
  /\ GetCell(meshCells, 1) = <<0, 1>>

----------------------------------------------------------------------------
(* Label-list-list claims *)

\* The list was read by ReadLabelListList (not as two binary arrays)
ParsedByReadLabelListList == lllInput.kind = "faceList" \/ ~lllInput.binary

\* The indices i for which sub-list i exists
ValidIndices(lll) == 0..(GetNumberOfElements(lll) - 1)

(* C2: for every label-list-list the parser produced (general form or       *)
(* binary compact form) and every valid index i, GetBeginOffset(i) <=       *)
(* GetEndOffset(i), GetEndOffset(i) = GetBeginOffset(i+1), and              *)
(* GetNumberOfElements() is the length of the offsets array minus 1.        *)
C2_OffsetInvariant ==
  lllState = "ok" =>
    /\ GetNumberOfElements(lllResult) = Len(lllResult.Offsets) - 1
    /\ \A i \in ValidIndices(lllResult) :
         /\ GetBeginOffset(lllResult, i) <= GetEndOffset(lllResult, i)
         /\ i + 1 \in ValidIndices(lllResult) =>
              GetEndOffset(lllResult, i) = GetBeginOffset(lllResult, i + 1)

\* The same for the lists ReadLabelListList built
C2_GeneralForm == ParsedByReadLabelListList => C2_OffsetInvariant

RECURSIVE SumLen(_, _)
SumLen(lists, i) == IF i > Len(lists) THEN 0 ELSE Len(lists[i].labels) + SumLen(lists, i + 1)

(* C6: after ReadLabelListList parsed a count-prefixed sequence of N        *)
(* sub-lists, the result has N sub-lists, sub-list i holds the labels       *)
(* written for sub-list i in input order, size-prefixed or token-delimited, *)
(* and the data length is the sum of the sub-list lengths.                  *)
C6_SubListsPreserved ==
  lllState = "ok" /\ ParsedByReadLabelListList =>
    /\ GetNumberOfElements(lllResult) = Len(lllInput.lists)
    /\ \A i \in 1..Len(lllInput.lists) : GetCell(lllResult, i - 1) = lllInput.lists[i].labels
    /\ Len(lllResult.Data) = SumLen(lllInput.lists, 1)

\* The same for the files in which every sub-list is size-prefixed
C6_SizePrefixed ==
  (\A i \in 1..Len(lllInput.lists) : lllInput.lists[i].prefixed) => C6_SubListsPreserved

----------------------------------------------------------------------------
(* vtkFoamFile::Read claims *)

\* The messages Read throws for malformed input
MalformedInputErrors ==
  {"Unexpected EOF", "Exceeded maximum allowed length",
   "Unescaped newline in string constant", "Unexpected EOF reading identifier",
   "Expected a word", "Unexpected EOF reading directive", "Unexpected EOF reading filename",
   "Unexpected EOF reading inputMode specifier", "Expected one of inputMode specifiers",
   "Unexpected EOF while skipping over #{ directive", "Unsupported directive",
   "Cannot open file for reading", "Exceeded maximum #include recursions"}

\* s is one complete number or one complete word and nothing else
IsCompleteLabel(s) == s # <<>> /\ Len(s) < MAXLEN /\ \A i \in 1..Len(s) : IsDigit(s[i])
IsCompleteWord(s) == s # <<>> /\ Len(s) < MAXLEN /\ \A i \in 1..Len(s) : s[i] = "a"

(* C7: Read returns false only when the input, the including files          *)
(* included, is exhausted; otherwise it returns true with a token or throws *)
(* (it does nothing else), it throws only for malformed input, and a        *)
(* complete number or word is returned with true whatever follows it, the   *)
(* end of the input included.                                               *)
C7_ReadContract ==
  /\ tokResult = "false" => Remaining(stream) = <<>>
  /\ tokResult \in {"closed", "none", "true", "false", "throw"}
  /\ tokResult = "throw" => tokError \in MalformedInputErrors
  /\ tokResult \notin {"closed", "none"} /\ IsCompleteLabel(tokBefore) =>
       tokResult = "true" /\ tokToken = Token("LABEL", tokBefore)
  /\ tokResult \notin {"closed", "none"} /\ IsCompleteWord(tokBefore) =>
       tokResult = "true" /\ tokToken = Token("STRING", tokBefore)

\* The parts of C7, one by one
C7_FalseOnlyAtEnd == tokResult = "false" => Remaining(stream) = <<>>
C7_NoUndefinedBehaviour == tokResult # "undefined"
C7_ThrowsOnlyMalformed == tokResult = "throw" => tokError \in MalformedInputErrors
C7_CompleteLabel ==
  tokResult \notin {"closed", "none"} /\ IsCompleteLabel(tokBefore) => tokResult = "true"
C7_CompleteWord ==
  tokResult \notin {"closed", "none"} /\ IsCompleteWord(tokBefore) => tokResult = "true"
\* A complete token followed by a space is returned with true
C7_TokenBeforeSpace ==
  /\ tokResult \notin {"closed", "none"}
  /\ tokBefore # <<>> /\ tokBefore[Len(tokBefore)] = " "
  /\ \/ IsCompleteLabel(SubSeq(tokBefore, 1, Len(tokBefore) - 1))
     \/ IsCompleteWord(SubSeq(tokBefore, 1, Len(tokBefore) - 1))
  => tokResult = "true" /\ tokToken.text = SubSeq(tokBefore, 1, Len(tokBefore) - 1)
\* No Read finds the byte PutBack stored for the end of the input
C7_NeverSpuriousByte ==
  tokResult \in {"true", "false", "throw", "undefined"} =>
    \A i \in 1..Len(tokBefore) : tokBefore[i] # "0xFF"

----------------------------------------------------------------------------
(* Claims about InsertCellsToGrid, MakeInternalMesh and InsertFacesToGrid *)

\* The label of turn i of the loop over the cells, 1-based
LabelOfTurn(i) == IF cellList.nullptr THEN i - 1 ELSE cellList.tuples[i]
IsCellOfMesh(label) == label >= 0 /\ label < insMesh.NumCells

\* The polyhedron of cell cellId is too large to be inserted undecomposed
IsTooLarge(cellId) == InsertCell(insMesh, cellId, FALSE, 0).exit = "return"
HasTooLarge == \E i \in 1..nCellsOf(insMesh, cellList) :
                 IsCellOfMesh(LabelOfTurn(i)) /\ IsTooLarge(LabelOfTurn(i))

(* C8: when a polyhedron exceeds maxNPoints or maxNPolyPoints only its own  *)
(* insertion is abandoned and an empty cell takes its slot: the grid        *)
(* InsertCellsToGrid leaves behind has one cell for every cell of the pass, *)
(* each cell in its own slot, the cells after the polyhedron included.      *)
C8_Original ==
  insState = "made" /\ ~DecomposePolyhedra /\ cellList.nullptr =>
    /\ Len(internalMesh) = insMesh.NumCells
    /\ \A i \in 1..Len(internalMesh) :
         /\ internalMesh[i].id = i - 1
         /\ IsTooLarge(i - 1) => internalMesh[i].type = "VTK_EMPTY_CELL"

\* C8, what the code does: the cells before the first polyhedron too large
\* are inserted, and nothing from it on
C8_NothingFromTooLargeOn ==
  insState = "made" /\ ~DecomposePolyhedra /\ cellList.nullptr =>
    /\ \A i \in 1..Len(internalMesh) : internalMesh[i].id = i - 1 /\ ~IsTooLarge(i - 1)
    /\ Len(internalMesh) < insMesh.NumCells => IsTooLarge(Len(internalMesh))

(* C9: in the cell and face passes a label with no entry in the cell or     *)
(* owner table gets an empty cell at its position and a cell whose faces    *)
(* are all empty gets an empty cell, so that, no polyhedron being too       *)
(* large, the pass inserts one cell for every label and cell i of the       *)
(* output is the cell of label i.                                           *)
C9_Original ==
  /\ insState # "undefined"
  /\ faceState # "undefined"
  /\ insState \in {"cells", "made"} /\ ~HasTooLarge =>
       /\ insState = "cells" => Len(internalMesh) = cellI
       /\ insState = "made" => cellI = nCellsOf(insMesh, cellList)
       /\ insState = "made" /\ ~DecomposePolyhedra => Len(internalMesh) = cellI
       /\ Len(internalMesh) >= cellI
       /\ \A i \in 1..cellI :
            /\ internalMesh[i].id = LabelOfTurn(i)
            /\ ~IsCellOfMesh(LabelOfTurn(i)) => internalMesh[i] = EmptyCell(LabelOfTurn(i))
            /\ IsCellOfMesh(LabelOfTurn(i)) /\ ~DecomposePolyhedra =>
                 internalMesh[i] = InsertCell(insMesh, LabelOfTurn(i), FALSE, 0).cells[1]
            /\ /\ IsCellOfMesh(LabelOfTurn(i))
               /\ GetSize(insMesh.meshCells, LabelOfTurn(i)) = 0
               => internalMesh[i].type = "VTK_EMPTY_CELL"
  /\ faceState = "inserted" /\ ~faceArgs.labels.nullptr /\ faceArgs.caller # "PointZone" =>
       /\ Len(boundaryMesh) = Len(faceArgs.labels.tuples)
       /\ \A i \in 1..Len(boundaryMesh) :
            /\ boundaryMesh[i].id = faceArgs.labels.tuples[i]
            /\ IF faceArgs.labels.tuples[i] \in 0..(Len(faceArgs.mesh.FaceOwner) - 1)
               THEN boundaryMesh[i].npts
                      = GetSize(faceArgs.mesh.meshFaces, faceArgs.labels.tuples[i])
               ELSE boundaryMesh[i] = EmptyCell(faceArgs.labels.tuples[i])

\* C9, labels past the end: a label >= NumCells, or >= the number of faces,
\* gets the empty cell at its position once the pass is through
C9_LabelPastEnd ==
  /\ insState \in {"cells", "made"} =>
       \A i \in 1..Len(internalMesh) :
         ~cellList.nullptr /\ LabelOfTurn(i) >= insMesh.NumCells =>
           internalMesh[i] = EmptyCell(LabelOfTurn(i))
  /\ faceState = "inserted" /\ ~faceArgs.labels.nullptr /\ faceArgs.caller # "PointZone" =>
       \A i \in 1..Len(boundaryMesh) :
         faceArgs.labels.tuples[i] >= Len(faceArgs.mesh.FaceOwner) =>
           boundaryMesh[i] = EmptyCell(faceArgs.labels.tuples[i])

\* C9, labels below 0: no pass over them goes wrong
C9_NoUndefinedBehaviour == insState # "undefined" /\ faceState # "undefined"

\* C10: the cells a polyhedron is decomposed into, k being its place among
\* the decomposed ones, 1-based
SubCellsOf(k) ==
  SubCells(insMesh, GetCell(insMesh.meshCells, AdditionalCellIds[k]), AdditionalCellIds[k], 0,
           insMesh.NumPoints + k - 1)
RECURSIVE OtherSubCellsUpTo(_)
OtherSubCellsUpTo(k) ==
  IF k = 0 THEN <<>> ELSE OtherSubCellsUpTo(k - 1) \o Tail(SubCellsOf(k))

(* C10: with decomposition every decomposed polyhedron adds one point, its  *)
(* centroid; the first cell it is decomposed into is inserted at the index  *)
(* of the polyhedron; all its other cells are collected in additionalCells  *)
(* and inserted after the pass over the cells, at the indices from NumCells *)
(* on, in the order they were collected.                                    *)
C10_Decomposition ==
  DecomposePolyhedra /\ insState \in {"cells", "returned", "made"} =>
    /\ insState # "returned"
    /\ pointArray = insMesh.NumPoints + Len(AdditionalCellIds)
    /\ Len(NumAdditionalCells) = Len(AdditionalCellIds)
    /\ \A k \in 1..Len(AdditionalCellIds) :
         /\ AdditionalCellIds[k] < cellI
         /\ SubCellsOf(k) # <<>>
         /\ internalMesh[AdditionalCellIds[k] + 1] = Head(SubCellsOf(k))
         /\ internalMesh[AdditionalCellIds[k] + 1].type \in {"VTK_PYRAMID", "VTK_TETRA"}
         /\ internalMesh[AdditionalCellIds[k] + 1].pts[internalMesh[AdditionalCellIds[k] + 1].npts]
              = insMesh.NumPoints + k - 1
         /\ NumAdditionalCells[k] = Len(SubCellsOf(k)) - 1
    /\ additionalCells = AdditionalTuples(OtherSubCellsUpTo(Len(AdditionalCellIds)))
    /\ NumTotalAdditionalCells = Len(additionalCells)
    /\ \A i \in 1..cellI : internalMesh[i].id = i - 1
    /\ insState = "cells" => Len(internalMesh) = cellI
    /\ insState = "made" =>
         /\ cellI = insMesh.NumCells
         /\ Len(internalMesh) = insMesh.NumCells + NumTotalAdditionalCells
         /\ \A j \in 1..Len(additionalCells) :
              /\ internalMesh[insMesh.NumCells + j] = AdditionalCell(additionalCells[j])
              /\ internalMesh[insMesh.NumCells + j].pts
                   = OtherSubCellsUpTo(Len(AdditionalCellIds))[j].pts

\* C10: a mesh of two cells is through MakeInternalMesh, its second cell a
\* polyhedron that was decomposed into more cells than one
C10_Witness ==
  /\ insState = "made"
  /\ DecomposePolyhedra
  /\ \E k \in 1..Len(AdditionalCellIds) : AdditionalCellIds[k] > 0 /\ NumAdditionalCells[k] > 0
  /\ Len(internalMesh) > insMesh.NumCells

\* The cells the k-th decomposed polyhedron was decomposed into, as the
\* grid and additionalCells hold them: the cell at the index of the
\* polyhedron and its NumAdditionalCells[k] tuples of additionalCells
RECURSIVE AdditionalBefore(_)
AdditionalBefore(k) == IF k <= 1 THEN 0 ELSE AdditionalBefore(k - 1) + NumAdditionalCells[k - 1]
SubCellTypesOf(k) ==
  <<internalMesh[AdditionalCellIds[k] + 1].type>>
    \o [j \in 1..NumAdditionalCells[k] |->
          AdditionalCell(additionalCells[AdditionalBefore(k) + j]).type]
CountOf(types, type) == Cardinality({i \in 1..Len(types) : types[i] = type})
FaceSizesOfDecomposed(k) ==
  FaceSizesOf(insMesh.meshFaces, GetCell(insMesh.meshCells, AdditionalCellIds[k]))
RECURSIVE PyramidsOfFaces(_)
PyramidsOfFaces(sizes) ==
  IF sizes = <<>> THEN 0 ELSE ((Head(sizes) - 2) \div 2) + PyramidsOfFaces(Tail(sizes))
OddFaces(sizes) == Cardinality({i \in 1..Len(sizes) : sizes[i] % 2 = 1})

(* C11 as stated: a polyhedron of five quadrilateral faces is decomposed    *)
(* into N - 2 pyramids, N being its number of faces, and at most one        *)
(* tetrahedron.                                                             *)
C11_Original ==
  DecomposePolyhedra /\ insState \in {"cells", "made"} =>
    \A k \in 1..Len(AdditionalCellIds) :
      Len(FaceSizesOfDecomposed(k)) = 5 /\ AllFacesHave(FaceSizesOfDecomposed(k), 4) =>
        /\ CountOf(SubCellTypesOf(k), "VTK_PYRAMID") = Len(FaceSizesOfDecomposed(k)) - 2
        /\ CountOf(SubCellTypesOf(k), "VTK_TETRA") <= 1

(* C11: a decomposed polyhedron yields, for every face of n points,         *)
(* (n - 2) div 2 pyramids and, if n is odd, one tetrahedron, and nothing    *)
(* else: a polyhedron of five quadrilateral faces yields five pyramids, one *)
(* for each face, and no tetrahedron.                                       *)
C11_SubCellsPerFace ==
  DecomposePolyhedra /\ insState \in {"cells", "made"} =>
    \A k \in 1..Len(AdditionalCellIds) :
      /\ Len(SubCellTypesOf(k)) = NumAdditionalCells[k] + 1
      /\ CountOf(SubCellTypesOf(k), "VTK_PYRAMID") = PyramidsOfFaces(FaceSizesOfDecomposed(k))
      /\ CountOf(SubCellTypesOf(k), "VTK_TETRA") = OddFaces(FaceSizesOfDecomposed(k))
      /\ CountOf(SubCellTypesOf(k), "VTK_PYRAMID") + CountOf(SubCellTypesOf(k), "VTK_TETRA")
           = Len(SubCellTypesOf(k))
      /\ Len(FaceSizesOfDecomposed(k)) = 5 /\ AllFacesHave(FaceSizesOfDecomposed(k), 4) =>
           /\ CountOf(SubCellTypesOf(k), "VTK_PYRAMID") = 5
           /\ CountOf(SubCellTypesOf(k), "VTK_TETRA") = 0

\* C11: a polyhedron of five quadrilateral faces has been decomposed, its
\* cells are in the grid
C11_Witness ==
  /\ insState = "made"
  /\ DecomposePolyhedra
  /\ \E k \in 1..Len(AdditionalCellIds) :
       /\ Len(FaceSizesOfDecomposed(k)) = 5
       /\ AllFacesHave(FaceSizesOfDecomposed(k), 4)
       /\ NumAdditionalCells[k] = 4

\* The faces of cell cellId form a hexahedron: six quadrilaterals on eight
\* points, every point on three of them, every two of them sharing an edge
\* or nothing, every one sharing an edge with four others
FacePointsOf(cellId) ==
  [i \in 1..GetSize(insMesh.meshCells, cellId) |->
     Range(GetCell(insMesh.meshFaces, GetCell(insMesh.meshCells, cellId)[i]))]
CornersOf(faces) == UNION {faces[i] : i \in 1..Len(faces)}
IsHexahedron(faces) ==
  /\ Len(faces) = 6
  /\ \A i \in 1..6 : Cardinality(faces[i]) = 4
  /\ Cardinality(CornersOf(faces)) = 8
  /\ \A p \in CornersOf(faces) : Cardinality({i \in 1..6 : p \in faces[i]}) = 3
  /\ \A i, j \in 1..6 : i # j => Cardinality(faces[i] \cap faces[j]) \in {0, 2}
  /\ \A i \in 1..6 : Cardinality({j \in 1..6 : Cardinality(faces[i] \cap faces[j]) = 2}) = 4
SixQuads(cellId) ==
  /\ GetSize(insMesh.meshCells, cellId) = 6
  /\ AllFacesHave(FaceSizesOf(insMesh.meshFaces, GetCell(insMesh.meshCells, cellId)), 4)

(* C12: a cell of six quadrilateral faces that form a hexahedron is         *)
(* inserted as one cell of type hexahedron with eight points, never as a    *)
(* polyhedron, and its eight points are pairwise distinct and are the eight *)
(* corners of its faces.                                                    *)
C12_Hexahedron ==
  insState \in {"cells", "returned", "made"} /\ cellList.nullptr =>
    \A cellId \in 0..(cellI - 1) :
      SixQuads(cellId) /\ IsHexahedron(FacePointsOf(cellId)) =>
        /\ Len(internalMesh) > cellId
        /\ internalMesh[cellId + 1].id = cellId
        /\ internalMesh[cellId + 1].type = "VTK_HEXAHEDRON"
        /\ internalMesh[cellId + 1].npts = 8
        /\ Len(internalMesh[cellId + 1].pts) = 8
        /\ Cardinality(Range(internalMesh[cellId + 1].pts)) = 8
        /\ Range(internalMesh[cellId + 1].pts) = CornersOf(FacePointsOf(cellId))
        /\ Cardinality({i \in 1..Len(internalMesh) : internalMesh[i].id = cellId}) = 1

\* C12: the second of two hexahedra that share a face is in the grid, its
\* base face a neighbour face
C12_Witness ==
  /\ insState = "made"
  /\ insMesh.NumCells = 2
  /\ SixQuads(1) /\ IsHexahedron(FacePointsOf(1))
  /\ ~IsOwnerFace(insMesh, GetCell(insMesh.meshCells, 1)[1], 1)
  /\ Len(internalMesh) = 2
  /\ internalMesh[2].type = "VTK_HEXAHEDRON"

\* C12, six quadrilaterals that form no hexahedron: they are inserted as a
\* hexahedron all the same, and its points are not eight distinct ones
C12_AnySixQuads ==
  insState \in {"cells", "made"} /\ cellList.nullptr =>
    \A cellId \in 0..(cellI - 1) :
      SixQuads(cellId) /\ Len(internalMesh) > cellId =>
        Cardinality(Range(internalMesh[cellId + 1].pts)) = 8

----------------------------------------------------------------------------
(* Claims about vtkOpenFOAMReader::RequestData *)

\* A step that is a call of RequestData in which the private reader's
\* RequestData ran
IsRequest == rdCalls' # rdCalls /\ rdLast'.called

\* The call throws cached meshes away or reads mesh files
Rebuilds ==
  \/ rdLast'.recreateInternalMesh
  \/ rdLast'.recreateBoundaryMesh
  \/ rdLast'.readFaces
  \/ rdLast'.readOwner

\* Nothing is loaded yet, or the faces of the requested time step are in
\* another time directory than those of the time step loaded before
TopologyMarkerDiffers ==
  \/ rd.TimeStepOld = NoTimeStep
  \/ rd.FaceOwner.nullptr
  \/ PolyMeshFacesDir(rd'.TimeStep) # PolyMeshFacesDir(rd.TimeStepOld)

StorageWidthChanged ==
  rd.Use64BitLabels # rd.Use64BitLabelsOld \/ rd.Use64BitFloats # rd.Use64BitFloatsOld

\* What else makes the call build the internal mesh again
InternalMeshOptionChanged ==
  \/ ~rd.CacheMesh
  \/ rd.SkipZeroTime # rd.SkipZeroTimeOld
  \/ rd.ListTimeStepsByControlDict # rd.ListTimeStepsByControlDictOld
  \/ rd'.InternalMeshSelectionStatus # rd.InternalMeshSelectionStatusOld
  \/ (rd'.InternalMeshSelectionStatus /\ rd.DecomposePolyhedra # rd.DecomposePolyhedraOld)
  \/ (rd.ReadZones /\ ~rd.ReadZonesOld)

\* What else makes the call build the boundary mesh again: the selection of
\* patches as the call finds it is not the one of the call before
BoundaryMeshOptionChanged ==
  \/ rd'.PatchSelectionMTimeOld # rd.PatchSelectionMTimeOld
  \/ rd.CreateCellToPoint # rd.CreateCellToPointOld

CachedMeshes(r) == <<r.FaceOwner, r.InternalMesh, r.BoundaryMesh>>

C13_OptionWitness ==
  /\ rdCalls >= 2
  /\ rdLast.recreateInternalMesh
  /\ rd.DecomposePolyhedra
  /\ rd.FaceOwner.dir = PolyMeshFacesDir(rd.TimeStep)
  /\ rd.InternalMesh.decomposed

\* What is cached was read from the time directory of the time step loaded
\* last, with the label width of that call
CacheConsistent ==
  ~rd.FaceOwner.nullptr =>
    /\ rd.TimeStepOld # NoTimeStep
    /\ rd.FaceOwner.dir = PolyMeshFacesDir(rd.TimeStepOld)
    /\ rd.FaceOwner.labels64 = rd.Use64BitLabelsOld

----------------------------------------------------------------------------
(* Claims about vtkFoamDict::Read and Lookup *)

\* What reading each file of the model gives
ReadOf == [pieces \in DictFiles |-> ReadFile(Flatten(pieces), INPUT_MODE_MERGE)]

\* The entries a piece holds, read alone
EntriesOf(piece) == ReadOf[<<piece>>].dict.entries

IsDictionary(values) == values # <<>> /\ values[1].type = "DICTIONARY"

\* What C14 says a file leaves whose entries are `new`, read in `mode` into
\* a dictionary that holds `old`: an entry whose keyword is new is added; in
\* merge mode a dictionary is merged into a dictionary, entry by entry, and
\* every other value replaces the value there is; in overwrite mode the
\* value replaces the value there is
RECURSIVE Claimed(_, _, _)
ClaimedValues(oldValues, newValues, mode) ==
  IF mode = INPUT_MODE_MERGE /\ IsDictionary(oldValues) /\ IsDictionary(newValues)
  THEN <<DictValue(DictOf(Claimed(oldValues[1].dict.entries, newValues[1].dict.entries, mode)))>>
  ELSE newValues
ClaimedEntry(old, entry, mode) ==
  IF Lookup(DictOf(old), entry.Keyword, FALSE) = 0 THEN Append(old, entry)
  ELSE [old EXCEPT ![Lookup(DictOf(old), entry.Keyword, FALSE)].values =
                     ClaimedValues(@, entry.values, mode)]
Claimed(old, new, mode) ==
  IF new = <<>> THEN old
  ELSE Claimed(ClaimedEntry(old, new[1], mode), Tail(new), mode)

RECURSIVE ClaimedOfPieces(_, _, _)
ClaimedOfPieces(old, pieces, mode) ==
  IF pieces = <<>> THEN old
  ELSE ClaimedOfPieces(Claimed(old, EntriesOf(pieces[1]), mode), Tail(pieces), mode)

\* The file is entries only, after at most a leading #inputMode
ModeOfFile(pieces) ==
  IF pieces # <<>> /\ pieces[1] = ModeOverwrite THEN INPUT_MODE_OVERWRITE
  ELSE IF pieces # <<>> /\ pieces[1] = ModeError THEN "INPUT_MODE_ERROR"
  ELSE INPUT_MODE_MERGE

EntriesOfFile(pieces) ==
  IF pieces # <<>> /\ pieces[1] \in {ModeOverwrite, ModeError} THEN Tail(pieces) ELSE pieces

IsEntriesFile(pieces) ==
  /\ EntriesOfFile(pieces) # <<>>
  /\ \A i \in 1..Len(EntriesOfFile(pieces)) : EntriesOfFile(pieces)[i] \in EntryPieces

\* Every piece of the model has the keyword a: two pieces collide
Collides(pieces) == Len(EntriesOfFile(pieces)) >= 2

\* Somewhere a value that is no dictionary meets a dictionary, or any value
\* meets an entry without values, in merge mode
RECURSIVE MeetsDictionary(_, _)
MeetsDictionaryAt(old, entry) ==
  /\ Lookup(DictOf(old), entry.Keyword, FALSE) # 0
  /\ \/ old[Lookup(DictOf(old), entry.Keyword, FALSE)].values = <<>>
     \/ /\ IsDictionary(old[Lookup(DictOf(old), entry.Keyword, FALSE)].values)
        /\ \/ ~IsDictionary(entry.values)
           \/ MeetsDictionary(old[Lookup(DictOf(old), entry.Keyword, FALSE)].values[1].dict.entries,
                              entry.values[1].dict.entries)
MeetsDictionary(old, new) ==
  /\ new # <<>>
  /\ \/ MeetsDictionaryAt(old, new[1])
     \/ MeetsDictionary(ClaimedEntry(old, new[1], INPUT_MODE_MERGE), Tail(new))

RECURSIVE PiecesMeetDictionary(_, _)
PiecesMeetDictionary(old, pieces) ==
  /\ pieces # <<>>
  /\ \/ MeetsDictionary(old, EntriesOf(pieces[1]))
     \/ PiecesMeetDictionary(Claimed(old, EntriesOf(pieces[1]), INPUT_MODE_MERGE), Tail(pieces))

ReadAsClaimed ==
  IF ModeOfFile(dictInput) = "INPUT_MODE_ERROR" /\ Collides(dictInput)
  THEN dictResult.res = "false"
  ELSE /\ dictResult.res = "true"
       /\ dictResult.dict.entries =
            ClaimedOfPieces(<<>>, EntriesOfFile(dictInput), ModeOfFile(dictInput))

\* C14: a file of entries is read as the input mode says: in merge mode a
\* keyword read again merges a dictionary into a dictionary and replaces the
\* value there is otherwise, in overwrite mode it replaces the value, in
\* error mode it is an error.
C14_Original ==
  dictState = "read" /\ IsEntriesFile(dictInput) => ReadAsClaimed

\* The same, but for the files in which, in merge mode, a value that is no
\* dictionary meets a dictionary or any value meets an entry without values
C14_ExceptOntoDictionary ==
  /\ dictState = "read"
  /\ IsEntriesFile(dictInput)
  /\ ~(ModeOfFile(dictInput) = INPUT_MODE_MERGE
       /\ PiecesMeetDictionary(<<>>, EntriesOfFile(dictInput)))
  => ReadAsClaimed

SubstPieces == {SubstA, DictBSubstA, DictASubstA}

\* The file up to its last piece, read alone
Before == ReadOf[ButLast(dictInput, 1)]

\* The file ends with a piece that has a $a, and reads well up to there
EndsWithSubst ==
  /\ dictState = "read"
  /\ dictInput # <<>>
  /\ Last(dictInput) \in SubstPieces
  /\ Before.res = "true"

\* The entry C15 says $a refers to in the dictionary `cur` within the
\* dictionary `root`: the entry a of cur, else the entry a of root (<<>>: none)
Referenced(cur, root) ==
  IF Lookup(DictOf(cur), <<"a">>, FALSE) # 0
  THEN <<cur[Lookup(DictOf(cur), <<"a">>, FALSE)]>>
  ELSE IF Lookup(DictOf(root), <<"a">>, FALSE) # 0
  THEN <<root[Lookup(DictOf(root), <<"a">>, FALSE)]>>
  ELSE <<>>

IsError(ref) == ref = <<>> \/ ~IsDictionary(ref[1].values)

\* cur with the entries of the referenced dictionary after its own
SplicedInto(cur, ref) == cur \o ref[1].values[1].dict.entries

\* The dictionary b { is read into: the dictionary there is, when merging
CurrentOfB(old, mode) ==
  IF /\ Lookup(DictOf(old), <<"b">>, FALSE) # 0
     /\ mode = INPUT_MODE_MERGE
     /\ IsDictionary(old[Lookup(DictOf(old), <<"b">>, FALSE)].values)
  THEN old[Lookup(DictOf(old), <<"b">>, FALSE)].values[1].dict.entries
  ELSE <<>>

WithB(old, entries) ==
  IF Lookup(DictOf(old), <<"b">>, FALSE) = 0
  THEN Append(old, Entry(<<"b">>, <<DictValue(DictOf(entries))>>))
  ELSE [old EXCEPT ![Lookup(DictOf(old), <<"b">>, FALSE)].values = <<DictValue(DictOf(entries))>>]

\* $a in the top-level dictionary
SubstAtTop(old) ==
  IF IsError(Referenced(old, old)) THEN dictResult.res = "false"
  ELSE /\ dictResult.res = "true"
       /\ dictResult.dict.entries = SplicedInto(old, Referenced(old, old))

\* b {$a }
SubstInB(old, mode) ==
  IF \/ Lookup(DictOf(old), <<"b">>, FALSE) # 0 /\ mode = "INPUT_MODE_ERROR"
     \/ IsError(Referenced(CurrentOfB(old, mode), old))
  THEN dictResult.res = "false"
  ELSE /\ dictResult.res = "true"
       /\ dictResult.dict.entries =
            WithB(old, SplicedInto(CurrentOfB(old, mode),
                                   Referenced(CurrentOfB(old, mode), old)))

\* a {b 1; $a }: a is a dictionary and it is found, so its entries are
\* spliced and the file is read
SubstInA == dictResult.res = "true"

SubstAsClaimed ==
  IF Last(dictInput) = SubstA THEN SubstAtTop(Before.dict.entries)
  ELSE IF Last(dictInput) = DictBSubstA THEN SubstInB(Before.dict.entries, Before.st.inputMode)
  ELSE SubstInA

\* C15: a $identifier read as an entry of a dictionary is looked up in that
\* dictionary and then in each enclosing dictionary; the entries of the
\* dictionary it refers to are appended, in order, to the dictionary being
\* read; reading fails with an error when the entry referred to is no
\* dictionary or is found nowhere.
C15_Original == EndsWithSubst => SubstAsClaimed

\* The entry $a refers to has no value
RefersToEmpty ==
  /\ Referenced(<<>>, Before.dict.entries) # <<>>
  /\ Referenced(<<>>, Before.dict.entries)[1].values = <<>>

\* The same, but for a $a that refers to an entry without values and a $a
\* inside the dictionary it refers to
C15_ExceptEmptyAndSelf ==
  EndsWithSubst /\ Last(dictInput) # DictASubstA /\ ~RefersToEmpty => SubstAsClaimed

C15_UndefinedWhenEmpty ==
  EndsWithSubst /\ Last(dictInput) # DictASubstA /\ RefersToEmpty => dictResult.res = "undefined"

C15_SelfDiverges ==
  EndsWithSubst /\ Last(dictInput) = DictASubstA => dictResult.res \in {"diverges", "false", "undefined"}

\* The pattern matches the whole of s: s can be cut into one piece per
\* element of the pattern, a character for a character or ".", any number
\* of them for a starred one
RECURSIVE MatchesWhole(_, _)
MatchesWhole(pattern, s) ==
  IF pattern = <<>> THEN s = <<>>
  ELSE IF Len(pattern) >= 2 /\ pattern[2] = "*"
  THEN \E k \in 0..Len(s) :
         /\ \A j \in 1..k : CharMatches(pattern[1], s[j])
         /\ MatchesWhole(SubSeq(pattern, 3, Len(pattern)), SubSeq(s, k + 1, Len(s)))
  ELSE /\ s # <<>>
       /\ CharMatches(pattern[1], s[1])
       /\ MatchesWhole(Tail(pattern), Tail(s))

LookedUp == dictState = "looked"

ExactAt(i) == dictResult.dict.entries[i].Keyword = dictLookup.keyword

PatternAt(i) ==
  /\ dictResult.dict.entries[i].Keyword # <<>>
  /\ dictResult.dict.entries[i].Keyword[1] # "*"
  /\ MatchesWhole(dictResult.dict.entries[i].Keyword, dictLookup.keyword)

Entries == 1..Len(dictResult.dict.entries)

\* C16: Lookup returns an entry whose keyword is the keyword looked up
\* whenever there is one; when there is none, it returns in regex mode the
\* last entry whose keyword, taken as a pattern, matches the whole keyword
\* looked up, and no entry when there is none or when not in regex mode.
C16_ExactThenLastPattern ==
  LookedUp =>
    IF \E i \in Entries : ExactAt(i)
    THEN dictLookup.index \in Entries /\ ExactAt(dictLookup.index)
    ELSE IF dictLookup.regex /\ \E i \in Entries : PatternAt(i)
    THEN /\ dictLookup.index \in Entries
         /\ PatternAt(dictLookup.index)
         /\ \A i \in Entries : PatternAt(i) => i <= dictLookup.index
    ELSE dictLookup.index = 0

\* Two patterns match and none is the keyword: the later one is returned
C16_Witness ==
  /\ LookedUp
  /\ dictLookup.regex
  /\ ~\E i \in Entries : ExactAt(i)
  /\ \E i \in Entries : PatternAt(i) /\ i < dictLookup.index
  /\ dictLookup.index \in Entries

\* The keyword is there, before a pattern that matches it
C16_ExactWitness ==
  /\ LookedUp
  /\ dictLookup.regex
  /\ dictLookup.index \in Entries
  /\ ExactAt(dictLookup.index)
  /\ \E i \in Entries : i > dictLookup.index /\ PatternAt(i) /\ ~ExactAt(i)

\* The file is one entry whose value is a list written 0() after `prefix`
IsZeroList(prefix) == dictState = "read" /\ dictInput = <<ZeroListEntry(prefix)>>

TaggedPrefixes == ListPrefixes \ {NoTag, Nonuniform}

\* The list type a tag stands for
TaggedType(prefix) ==
  IF prefix \in {ListTag(WordScalar), Nonuniform \o ListTag(WordScalar)} THEN "SCALARLIST"
  ELSE "LABELLIST"

\* The file was read without error into one entry with one value, a list
\* of the given type without elements
ReadAsEmpty(type) ==
  /\ dictResult.res = "true"
  /\ dictResult.err = ""
  /\ Len(dictResult.dict.entries) = 1
  /\ Len(dictResult.dict.entries[1].values) = 1
  /\ dictResult.dict.entries[1].values[1].type = type
  /\ dictResult.dict.entries[1].values[1].list = <<>>

\* C17 as stated: 0() is read as a value of type EMPTYLIST, without error,
\* whether or not a list type tag stands before it; so is
\* nonuniform List<scalar> 0(), like nonuniform 0() and 0().
C17_Original ==
  \A prefix \in ListPrefixes : IsZeroList(prefix) => ReadAsEmpty("EMPTYLIST")

\* C17: 0() is read without error as a list without elements: of type
\* EMPTYLIST when no list type tag stands before it (0() and
\* nonuniform 0()), and of the type of the tag when one does (SCALARLIST
\* for List<scalar> 0() and nonuniform List<scalar> 0(), LABELLIST for
\* List<label>).
C17_EmptyListType ==
  /\ \A prefix \in {NoTag, Nonuniform} : IsZeroList(prefix) => ReadAsEmpty("EMPTYLIST")
  /\ \A prefix \in TaggedPrefixes : IsZeroList(prefix) => ReadAsEmpty(TaggedType(prefix))

\* nonuniform List<scalar> 0() was read, as a list of scalars
C17_Witness ==
  /\ IsZeroList(Nonuniform \o ListTag(WordScalar))
  /\ ReadAsEmpty("SCALARLIST")

\* 0() was read, as an empty list
C17_BareWitness == IsZeroList(NoTag) /\ ReadAsEmpty("EMPTYLIST")

\* A list of one element is read as a list of the type of its tag, or of
\* labels after its size when there is no tag
C17_OneElement ==
  /\ \A prefix \in TaggedPrefixes :
       dictState = "read" /\ dictInput = <<OneListEntry(prefix)>> =>
         /\ dictResult.res = "true"
         /\ dictResult.dict.entries[1].values =
              <<ListValue(TaggedType(prefix),
                          <<IF TaggedType(prefix) = "LABELLIST" THEN 2 ELSE Normal(2, 0)>>)>>
  /\ dictState = "read" /\ dictInput = <<OneListEntry(NoTag)>> =>
       /\ dictResult.res = "true"
       /\ Len(dictResult.dict.entries[1].values) = 2
       /\ dictResult.dict.entries[1].values[2].type = "LABELLIST"

----------------------------------------------------------------------------
(* Claims about the include stack and the buffer of vtkFoamFile *)

RecursionLimitError == "Exceeded maximum #include recursions"

\* C18: the stack of suspended files never holds more than
\* VTK_FOAMFILE_INCLUDE_STACK_SIZE entries, and a Read that ended with the
\* recursion-limit error met its #include with the stack full and pushed
\* nothing more.
C18_IncludeStackBounded ==
  /\ Len(stream.stack) <= VTK_FOAMFILE_INCLUDE_STACK_SIZE
  /\ tokError = RecursionLimitError =>
       tokResult = "throw" /\ Len(stream.stack) = VTK_FOAMFILE_INCLUDE_STACK_SIZE

\* A file that includes itself was read: the Read ended with the
\* recursion-limit error and a full stack
C18_Witness ==
  /\ tokResult = "throw"
  /\ tokError = RecursionLimitError
  /\ Len(stream.stack) = VTK_FOAMFILE_INCLUDE_STACK_SIZE

\* C19: the one PutBack of the character a Getc returned never fails; it
\* leaves the buffer as the Getc left it, one position back and as long as
\* it was, and the next Getc returns the character again and leaves the
\* file as the first Getc did.
C19_PutBackAfterGetc ==
  /\ bufState # "failed"
  /\ bufState = "putback" =>
       /\ bufStream = [bufGot EXCEPT !.ptr = @ - 1]
       /\ bufStream.ptr \in 2..Len(bufStream.data)
       /\ Getc(bufStream).c = bufChar
       /\ Getc(bufStream).st = bufGot

\* The first character after a refill in the middle of the file was put back
C19_Witness == bufState = "putback" /\ bufHow = "refilled" /\ bufStream.ptr = 2

\* So were the first character of a file and the character read when the
\* including file was resumed
C19_OpenedWitness == bufState = "putback" /\ bufHow = "opened" /\ bufStream.stack = <<>>

C19_ResumedWitness == bufState = "putback" /\ bufHow = "resumed"

C19_IncludedWitness == bufState = "putback" /\ bufHow = "refilled" /\ bufStream.stack # <<>>

----------------------------------------------------------------------------
(* Claims about numeric literals *)

\* The value a literal is written as
WrittenValue(lit) ==
  Normal((IF lit.sign = <<"-">> THEN -1 ELSE 1)
           * (lit.int.value * (IF lit.frac.places = 2 THEN 100
                               ELSE IF lit.frac.places = 1 THEN 10 ELSE 1)
              + lit.frac.value),
         lit.exp.value - lit.frac.places)

WrittenInt(lit) == (IF lit.sign = <<"-">> THEN -1 ELSE 1) * lit.int.value

\* The literal is an integer: digits only
IsIntLiteral(lit) == lit.frac.text = <<>> /\ lit.exp.text = <<>>

HasRead(op) == numState = "read" /\ numResult.op = op

\* The tokenizer made one number of the literal, with its value
OneToken ==
  /\ numResult.res = "true"
  /\ numResult.rest = numInput.term
  /\ IF IsIntLiteral(numInput)
     THEN /\ numResult.type = "LABEL"
          /\ numResult.int = WrittenInt(numInput)
          /\ numResult.value = WrittenValue(numInput)
     ELSE /\ numResult.type = "SCALAR"
          /\ numResult.value = WrittenValue(numInput)

\* ReadIntValue returned the value of the integer literal
OneInt ==
  /\ numResult.res = "true"
  /\ numResult.rest = numInput.term
  /\ numResult.int = WrittenInt(numInput)

\* ReadFloatValue returned the value of the literal
OneFloat ==
  /\ numResult.res = "true"
  /\ numResult.rest = numInput.term
  /\ numResult.value = WrittenValue(numInput)

C20_FloatWitness ==
  /\ HasRead("ReadFloatValue")
  /\ numInput.sign = <<"+">>
  /\ numInput.exp.value = 85
  /\ numInput.term # <<>>
  /\ numResult.value = [m |-> 75, e |-> 84]

C20_IntWitness ==
  /\ HasRead("ReadIntValue")
  /\ numInput.sign = <<"+">>
  /\ IsIntLiteral(numInput)
  /\ numInput.term # <<>>
  /\ numResult.int = 12

\* A literal the file ends with is not read: Read, ReadIntValue and
\* ReadFloatValue throw
C20_AtEndOfFile ==
  numInput.term = <<>> =>
    /\ HasRead("ReadIntValue") /\ IsIntLiteral(numInput) => numResult.res = "throw"
    /\ HasRead("ReadFloatValue") => numResult.res = "throw"
    /\ HasRead("Read") /\ numInput.sign # <<"+">> => numResult.res = "throw"

----------------------------------------------------------------------------
(* Claims about vtkFoamBoundaries::whichPatch *)

\* The patches whose face range holds the face
PatchesHolding(f) ==
  {i \in 1..Len(patches) : patches[i].start_ <= f /\ f < PatchEndFace(patches[i])}

\* The face is covered by the boundary
Covered(f) ==
  patches # <<>> /\ patches[1].start_ <= f /\ f < PatchEndFace(patches[Len(patches)])

\* C25 as stated: for a face the boundary covers whichPatch returns the
\* index of the patch whose face range holds the face, and -1 for an internal
\* face and for a face at or past the end of the last patch.
C25_Original ==
  whichResult.called =>
    IF Covered(whichResult.faceIndex)
    THEN \E i \in PatchesHolding(whichResult.faceIndex) :
           whichResult.index = patches[i].index_
    ELSE whichResult.index = -1

\* Outside the boundary the answer is -1
C25_OutsideBoundary ==
  whichResult.called /\ ~Covered(whichResult.faceIndex) => whichResult.index = -1

\* What the search returns for a covered face: the index of the first patch
\* that starts after the face, and -1 when no patch does - never the patch
\* that holds the face
C25_ReturnsFollowing ==
  whichResult.called /\ Covered(whichResult.faceIndex) =>
    /\ \A i \in PatchesHolding(whichResult.faceIndex) : whichResult.index # patches[i].index_
    /\ IF \E j \in 1..Len(patches) : patches[j].start_ > whichResult.faceIndex
       THEN \E j \in 1..Len(patches) :
              /\ patches[j].start_ > whichResult.faceIndex
              /\ \A k \in 1..(j - 1) : patches[k].start_ <= whichResult.faceIndex
              /\ whichResult.index = patches[j].index_
       ELSE whichResult.index = -1

\* Face 1 of the boundary of two patches [0, 2) and [2, 4) was asked for
C25_TwoPatches ==
  /\ whichResult.called
  /\ whichResult.faceIndex = 1
  /\ Len(patches) = 2
  /\ patches[1].start_ = 0 /\ patches[1].size_ = 2
  /\ patches[2].start_ = 2 /\ patches[2].size_ = 2
  /\ whichResult.index = 1

----------------------------------------------------------------------------
(* Claims about PutBack of the end of the input *)

\* The last Read returned the '/' that was the last character of the input:
\* NextTokenHead read past it, got EOF and put it back
SlashWasLast ==
  /\ tokResult = "true"
  /\ TokenIsChar(tokToken, "/")
  /\ tokBefore # <<>>
  /\ tokBefore[Len(tokBefore)] = "/"
  /\ \A i \in 1..(Len(tokBefore) - 1) : IsSpace(tokBefore[i])

\* C30 as stated: after the end of the input was put back the stream is at
\* the end of the input: the next Getc returns EOF and the next Read returns
\* false.
C30_Original ==
  SlashWasLast =>
    /\ Getc(stream).c = EOF
    /\ Read(stream, <<>>, "garbage").res = "false"

\* What happens: the next Getc returns the byte 0xFF that PutBack stored, and
\* the next Read takes it for the first character of a word, meets the end of
\* the input and throws
C30_SpuriousByte ==
  SlashWasLast =>
    /\ Remaining(stream) = <<"0xFF">>
    /\ Getc(stream).c = "0xFF"
    /\ Getc(Getc(stream).st).c = EOF
    /\ Read(stream, <<>>, "garbage").res = "throw"
    /\ Read(stream, <<>>, "garbage").err = "Unexpected EOF"

\* The file " /" was read
C30_SlashAfterSpace == SlashWasLast /\ tokBefore = <<" ", "/">>

----------------------------------------------------------------------------
(* Claims about the keywords of a dictionary *)

\* No two entries of the dictionary have the same keyword, nor have two
\* entries of a dictionary within it
RECURSIVE DistinctKeywords(_)
DistinctKeywords(d) ==
  /\ \A i, j \in 1..Len(d.entries) :
       d.entries[i].Keyword = d.entries[j].Keyword => i = j
  /\ \A i \in 1..Len(d.entries) :
       \A k \in 1..Len(d.entries[i].values) :
         d.entries[i].values[k].type = "DICTIONARY" =>
           DistinctKeywords(d.entries[i].values[k].dict)

HasSubst(pieces) == \E i \in 1..Len(pieces) : pieces[i] \in {SubstA, DictBSubstA, DictASubstA}

\* C28 as stated: a dictionary that was read without error has no two
\* entries with the same keyword, under any input mode, also after a
\* $identifier substitution.
C28_Original ==
  dictState = "read" /\ dictResult.res = "true" => DistinctKeywords(dictResult.dict)

\* Without a substitution in the file the keywords are distinct, under any
\* input mode
C28_WithoutSubstitution ==
  dictState = "read" /\ dictResult.res = "true" /\ ~HasSubst(dictInput)
    => DistinctKeywords(dictResult.dict)

\* A substitution appends a copy of every entry of the source dictionary,
\* whatever the current dictionary holds: `a {a 1;} $a ` is read into two
\* entries with the keyword a
C28_SplicedTwice ==
  dictState = "read" /\ dictInput \in {mode \o <<DictAA, SubstA>> : mode \in ModePieces} =>
    /\ dictResult.res = "true"
    /\ Len(dictResult.dict.entries) = 2
    /\ dictResult.dict.entries[1].Keyword = <<"a">>
    /\ dictResult.dict.entries[2].Keyword = <<"a">>
    /\ dictResult.dict.entries[2].values[1].type = "LABEL"

\* A file of two colliding entries was read in merge mode
C28_CollisionRead ==
  dictState = "read" /\ dictInput = <<EntryA1, EntryA2>> /\ dictResult.res = "true"

----------------------------------------------------------------------------
(* Claims about the labels of the zones *)

\* The pass over the labels of a cell zone, a face zone or a point zone
CellZonePass == insState \in {"cells", "made"} /\ ~cellList.nullptr
FaceZonePass == faceState = "inserted" /\ faceArgs.caller = "FaceZone"
PointZonePass == faceState = "inserted" /\ faceArgs.caller = "PointZone"

\* The labels the face or point pass went over
ZoneLabel(i) == faceArgs.labels.tuples[i]

\* C27 as stated: every label of a zone is checked to lie within the cells,
\* faces or points before it is used as an index: no pass reads out of range
\* (also not the pre-pass for the largest face of a face zone), and a label
\* outside the range, a negative one included, gets the empty cell.
C27_Original ==
  /\ insState # "undefined"
  /\ faceState # "undefined"
  /\ CellZonePass =>
       \A i \in 1..cellI :
         ~IsCellOfMesh(LabelOfTurn(i)) => internalMesh[i] = EmptyCell(LabelOfTurn(i))
  /\ FaceZonePass =>
       \A i \in 1..Len(boundaryMesh) :
         ZoneLabel(i) \notin 0..(Len(faceArgs.mesh.FaceOwner) - 1) =>
           boundaryMesh[i] = EmptyCell(ZoneLabel(i))
  /\ PointZonePass =>
       \A i \in 1..Len(boundaryMesh) :
         ZoneLabel(i) \notin 0..(faceArgs.mesh.NumPoints - 1) =>
           boundaryMesh[i] = EmptyCell(ZoneLabel(i))

\* A label at or past the number of cells, faces or points gets the empty
\* cell in every pass that got through
C27_PastEndPlaceholder ==
  /\ CellZonePass =>
       \A i \in 1..cellI :
         LabelOfTurn(i) >= insMesh.NumCells => internalMesh[i] = EmptyCell(LabelOfTurn(i))
  /\ FaceZonePass =>
       \A i \in 1..Len(boundaryMesh) :
         ZoneLabel(i) >= Len(faceArgs.mesh.FaceOwner) => boundaryMesh[i] = EmptyCell(ZoneLabel(i))
  /\ PointZonePass =>
       \A i \in 1..Len(boundaryMesh) :
         ZoneLabel(i) >= faceArgs.mesh.NumPoints => boundaryMesh[i] = EmptyCell(ZoneLabel(i))

\* The point pass reads nothing through a label, and gives a label below 0
\* a vertex of that point id, not the empty cell
C27_NegativePointIsVertex ==
  PointZonePass =>
    /\ Len(boundaryMesh) = Len(faceArgs.labels.tuples)
    /\ \A i \in 1..Len(boundaryMesh) :
         ZoneLabel(i) < 0 => boundaryMesh[i] = Cell("VTK_VERTEX", 1, <<ZoneLabel(i)>>, ZoneLabel(i))

\* The point zone (-1 9) was inserted
C27_PointZoneRead == PointZonePass /\ faceArgs.labels.tuples = <<-1, 9>>

----------------------------------------------------------------------------
(* C21: symmTensor tuples of the boundary fields                           *)

\* (XX,XY,XZ,YY,YZ,ZZ) in (XX,YY,ZZ,XY,YZ,XZ) order
Remapped(t) == <<t[1], t[4], t[6], t[2], t[5], t[3]>>

\* tuple i of the array d handed to a patch mesh, and the tuple of the file
\* it was made from
MeshTuple(d, i) == SubSeq(d.values, 6 * (i - 1) + 1, 6 * i)

FileTuple(d, i) ==
  IF d.uniform THEN fldFile[d.entry].value.list
  ELSE SubSeq(fldFile[d.entry].value.list, 6 * (i - 1) + 1, 6 * i)

RemappedOnce(p) ==
  \A i \in 1 .. fldData[p].nFaces :
    MeshTuple(fldData[p], i) = Remapped(FileTuple(fldData[p], i))

FirstUse(p) == \A q \in 1 .. (p - 1) : fldData[q].entry # fldData[p].entry

C21_FirstUseRemapped ==
  \A p \in 1 .. Len(fldData) :
    (/\ fldData[p].nComponents = 6
     /\ \/ fldData[p].type = "LABELLIST"
        \/ \A q \in 1 .. Len(fldData) : q # p => fldData[q].entry # fldData[p].entry)
    => RemappedOnce(p)

\* C21, the divergence: the second patch that a uniform scalar-list entry
\* serves gets the tuple in the order of the file
C21_SecondUseUndone ==
  \A p \in 1 .. Len(fldData) :
    (/\ fldData[p].nComponents = 6
     /\ fldData[p].uniform
     /\ fldData[p].type = "SCALARLIST"
     /\ ~FirstUse(p))
    => \A i \in 1 .. fldData[p].nFaces :
         MeshTuple(fldData[p], i) = FileTuple(fldData[p], i)

\* C21, the divergence for a nonuniform list: both patches hold the one
\* array, exchanged twice
C21_SharedListUndone ==
  \A p \in 1 .. Len(fldData) :
    (/\ fldData[p].nComponents = 6
     /\ ~fldData[p].uniform
     /\ \E q \in 1 .. Len(fldData) : q # p /\ fldData[q].entry = fldData[p].entry)
    => \A i \in 1 .. fldData[p].nFaces :
         MeshTuple(fldData[p], i) = FileTuple(fldData[p], i)

\* a pattern entry with a uniform symmTensor served two patches with faces
C21_PatternServedTwo ==
  /\ fldState = "done"
  /\ Len(fldData) = 2
  /\ fldData[1].entry = fldData[2].entry
  /\ fldData[2].nComponents = 6
  /\ fldData[2].uniform
  /\ fldData[2].type = "SCALARLIST"
  /\ fldData[2].nFaces > 0

----------------------------------------------------------------------------
(* C29: the cell data of a decomposed internal mesh                        *)

\* the polyhedron a cell appended to the grid was decomposed from: the one
\* whose centroid is the apex of the cell
OriginOf(cell) == AdditionalCellIds[cell.pts[cell.npts] - insMesh.NumPoints + 1]

\* C29: with decomposition the array set to the cell data of the internal
\* mesh has one tuple per cell of the grid, NumCells + NumTotalAdditionalCells
\* of them, every one written, and the tuple of each appended cell is the
\* tuple of the polyhedron it was decomposed from
C29_CellDataOfDecomposed ==
  (DecomposePolyhedra /\ ~cellData.null) =>
    /\ NumberOfTuples(cellData) = Len(internalMesh)
    /\ NumberOfTuples(cellData) = insMesh.NumCells + NumTotalAdditionalCells
    /\ Len(cellData.values) = cellData.nComponents * Len(internalMesh)
    /\ \A k \in 1 .. Len(cellData.values) : cellData.values[k] # Unwritten
    /\ \A j \in 1 .. NumTotalAdditionalCells :
         TupleAt(cellData, insMesh.NumCells + j - 1)
           = TupleAt(cellData, OriginOf(internalMesh[insMesh.NumCells + j]))

\* C29: a field with one vector per cell is set to a mesh of two cells whose
\* second cell was decomposed into more cells than one
C29_Witness ==
  /\ insState = "made"
  /\ DecomposePolyhedra
  /\ ~cellData.null
  /\ cellData.nComponents = 3
  /\ insMesh.NumCells = 2
  /\ NumberOfTuples(cellData) > 2
  /\ TupleAt(cellData, 0) # TupleAt(cellData, 1)
  /\ \E k \in 1 .. Len(AdditionalCellIds) : AdditionalCellIds[k] > 0 /\ NumAdditionalCells[k] > 0
  /\ TupleAt(cellData, Len(internalMesh) - 1) = TupleAt(cellData, 1)

----------------------------------------------------------------------------
(* C26: a call of RequestData that returned 0 part-way                    *)

\* the call before returned 0 after it had cleared or read meshes
FailedPartWay == rdLast.called /\ rdLast.ret = 0

\* a call with the settings and the time step of the call before
RepeatedRequest == IsRequest /\ rd'.TimeStep = rd.TimeStep

\* the call clears both meshes and sets out to read the mesh files and to
\* build both again
RebuildsAll ==
  /\ rdLast'.recreateInternalMesh
  /\ rdLast'.recreateBoundaryMesh
  /\ rdLast'.readFaces

\* C26 as stated: the call after one that failed part-way, with the same
\* settings and time step, reads the mesh primitives again and builds the
\* internal and the boundary mesh again
C26_Original == [][FailedPartWay /\ RepeatedRequest => RebuildsAll]_vars

\* C26, what holds: the call after one that failed with the owner list
\* cleared and not read again builds both meshes again
C26_RebuildAfterOwnerCleared ==
  [][FailedPartWay /\ rd.FaceOwner.nullptr /\ rdLast.recreateInternalMesh /\ RepeatedRequest
       => rdLast'.recreateInternalMesh /\ rdLast'.recreateBoundaryMesh]_vars

\* C26, the divergence: the call after one that failed with the owner list
\* read (the points were unreadable), on a reader that had loaded this
\* topology before, with the storage widths and the options as the failed
\* call left them, keeps the meshes the failed call cleared
C26_MissingMeshesKept ==
  [][(/\ FailedPartWay
      /\ ~rd.FaceOwner.nullptr
      /\ rd.InternalMesh.nullptr
      /\ rd.BoundaryMesh.nullptr
      /\ RepeatedRequest
      /\ ~rdLast'.recreateBoundaryMesh)
       => /\ rdLast'.ret = 1
          /\ rd'.InternalMesh.nullptr
          /\ rd'.BoundaryMesh.nullptr
          /\ ~rdLast'.readFaces]_vars

\* a call returned 1 with the internal mesh selected and both meshes
\* missing, after a call that failed on the points
C26_ServedMissing ==
  /\ rdCalls = 3
  /\ rdLast.called
  /\ rdLast.ret = 1
  /\ ~rdLast.recreateBoundaryMesh
  /\ rd.InternalMeshSelectionStatus
  /\ rd.CacheMesh
  /\ ~rd.FaceOwner.nullptr
  /\ rd.InternalMesh.nullptr
  /\ rd.BoundaryMesh.nullptr

----------------------------------------------------------------------------
(* C22: an error in one zone                                               *)

\* the limit of the zones of the file read last: the number of points,
\* faces or cells
MaxLabelsOfFile ==
  IF znFile.name = "pointZones" THEN zn.NumPoints
  ELSE IF znFile.name = "faceZones" THEN zn.NumFaces ELSE zn.NumCells

ZoneMeshOfFile ==
  IF znFile.name = "pointZones" THEN zn.PointZoneMesh
  ELSE IF znFile.name = "faceZones" THEN zn.FaceZoneMesh ELSE zn.CellZoneMesh

ZoneIndexes == 1 .. Len(znFile.zones)

\* zone z of the file has more labels than there are points, faces or cells
TooManyLabels(z) ==
  /\ znFile.zones[z].labels.type = "LABELLIST"
  /\ znFile.zones[z].labels.nLabels > MaxLabelsOfFile

\* zone z of the file is one a mesh can be made of
SoundZone(z) ==
  \/ znFile.zones[z].labels.type = "EMPTYLIST"
  \/ znFile.zones[z].labels.type = "LABEL" /\ znFile.zones[z].labels.value = 0
  \/ znFile.zones[z].labels.type = "LABELLIST" /\ znFile.zones[z].labels.nLabels <= MaxLabelsOfFile

\* the mesh of zone z of the file is in the reader
Produced(z) ==
  /\ ~ZoneMeshOfFile.nullptr
  /\ \E b \in 1 .. Len(ZoneMeshOfFile.blocks) : ZoneMeshOfFile.blocks[b].name = znFile.zones[z].keyword

\* the only errors of the file are zones with too many labels
OnlyTooManyLabels ==
  /\ \E z \in ZoneIndexes : TooManyLabels(z)
  /\ \A z \in ZoneIndexes : TooManyLabels(z) \/ SoundZone(z)

\* C22 as stated: after a request that met a zone with more labels than
\* there are cells, faces or points, and no other error, the internal mesh
\* made is in the output, the boundary meshes are made and every sound zone
\* of the file is in the reader
C22_Original ==
  zn.state = "returned" /\ OnlyTooManyLabels =>
    /\ zn.BoundaryMesh = "mesh"
    /\ zn.InternalMesh = "mesh" => zn.output # <<>>
    /\ \A z \in ZoneIndexes : SoundZone(z) => Produced(z)

\* C22, what holds: a request that met a zone with more labels than there
\* are cells, faces or points has reported one error and returned 0 with
\* every zone mesh of the region cleared, the boundary meshes not made and
\* nothing put into the output
C22_ZoneErrorAbortsRequest ==
  zn.state = "returned" /\ (\E z \in ZoneIndexes : TooManyLabels(z)) =>
    /\ zn.ret = 0
    /\ zn.errors = 1
    /\ zn.PointZoneMesh.nullptr /\ zn.FaceZoneMesh.nullptr /\ zn.CellZoneMesh.nullptr
    /\ zn.BoundaryMesh = "nullptr"
    /\ zn.output = <<>>

\* the second cell zone has too many labels; the first cell zone was sound
\* and the point and face zones read before had made meshes, and the
\* internal mesh was made
C22_Witness ==
  /\ zn.state = "returned"
  /\ zn.InternalMesh = "mesh"
  /\ znFile.name = "cellZones"
  /\ Len(znFile.zones) = 2
  /\ SoundZone(1) /\ znFile.zones[1].labels.type = "LABELLIST"
  /\ TooManyLabels(2)
  /\ zn.deleted = 2 * MaxZones + 1
  /\ zn.ret = 0

----------------------------------------------------------------------------
(* C23: the chunks of a parallel For                                       *)

InRange(i) == smpArgs.first <= i /\ i < smpArgs.last

\* the chunks that are pending or being executed
ChunksInFlight ==
  {[from |-> f, to |-> ChunkEnd(f, smpArgs.grain, smpArgs.last)] : f \in smpPending}
  \cup {[from |-> smpThreads[t].from, to |-> smpThreads[t].to] : t \in {u \in 1 .. MaxSMPThreads : smpThreads[u].busy}}

\* no index is processed twice, none outside [first, last), and none is
\* both processed and still in a chunk to come; after the call every index
\* of [first, last) has been processed once
ChunksPartition ==
  /\ smpState \in {"loop", "returned"} =>
       /\ smpArgs.grain > 0
       /\ \A i \in SMPIndexes : smpCount[i] <= 1 /\ (smpCount[i] = 1 => InRange(i))
       /\ \A c \in ChunksInFlight : \A i \in SMPIndexes :
            c.from <= i /\ i < c.to => InRange(i) /\ smpCount[i] = 0
       /\ \A c, d \in ChunksInFlight : c # d => c.to <= d.from \/ d.to <= c.from
  /\ smpState = "returned" =>
       \A i \in SMPIndexes : smpCount[i] = (IF InRange(i) THEN 1 ELSE 0)

\* C23: the chunks of a For are disjoint, lie in [first, last) and cover
\* it, so that every index is processed exactly once in whatever order the
\* threads take the chunks; the grain used is positive, and a For that has
\* begun returns
C23_ChunksCoverOnce == []ChunksPartition /\ (smpState = "loop" ~> smpState = "returned")

\* a For over [1, MaxLast) with two threads and the grain 1 has returned:
\* every index of the range was processed once, no other
C23_Witness ==
  /\ smpState = "returned"
  /\ smpArgs.first = 1 /\ smpArgs.last = MaxLast /\ smpArgs.nThreads = 2
  /\ smpArgs.grain = 1
  /\ \A i \in SMPIndexes : smpCount[i] = (IF InRange(i) THEN 1 ELSE 0)

\* a For with a grain that does not divide the range is under way: the last
\* chunk, cut at last, was executed while the first is still pending
C23_CutChunkFirst ==
  /\ smpState = "loop"
  /\ smpArgs.first = 0 /\ smpArgs.last = 3 /\ smpArgs.grain = 2
  /\ smpPending = {0}
  /\ smpCount[2] = 1 /\ smpCount[3] = 0 /\ smpCount[0] = 0

----------------------------------------------------------------------------
(* C24: every job pushed is run once                                       *)

\* the jobs pushed so far
Pushed == {job \in Jobs : job < test.i}

\* where a job is: waiting in the queue, or being run by a worker
Waiting(job) == \E k \in 1 .. Len(queue.InvokerQueue) : queue.InvokerQueue[k] = job
BeingRun(job) == \E t \in Workers : queue.Threads[t] = Invoking(job)

\* no job is run twice or before it is pushed, and a job pushed is waiting,
\* being run or has been run, one of the three
RunAtMostOnce ==
  \A job \in Jobs :
    /\ ran[job] <= 1
    /\ (ran[job] = 1 \/ Waiting(job) \/ BeingRun(job)) <=> job \in Pushed
    /\ ~(Waiting(job) /\ BeingRun(job))
    /\ ran[job] = 1 => ~Waiting(job) /\ ~BeingRun(job)

C24_PushedWhileStopped ==
  /\ ~queue.Running
  /\ test.at = "loop"
  /\ Waiting(StopAt(MaxJobs))
  /\ \A t \in Workers : queue.Threads[t] = Off

====
